---- MODULE Spec2Model ----
(***************************************************************************)
(* Condition variable of the ULT runtime (src/src/cond.c): one CV, its     *)
(* guard mutex, its waiter list with the reused first entry, and callers   *)
(* that wait, signal and broadcast on it.                                  *)
(***************************************************************************)
EXTENDS Integers, Sequences, FiniteSets, TLC

\* ---- bounds of the model ----
NumWaiters == 2
MaxNodes == 2

MaxUnits == 2
MaxScheds == 3

\* ---- program constants ----
NULL == 0
ABT_MUTEX_NULL == 0

\* callers 1..NumWaiters call ABT_cond_wait; one more caller (the main thread
\* of the scenarios) signals, broadcasts, frees and creates. guard serialises
\* the critical sections, so one such caller reaches every order of them.
Waiters == 1..NumWaiters
Signalers == {NumWaiters + 1}
Callers == Waiters \cup Signalers
\* the user mutexes m1 and m2
Mutexes == {1, 2}
Nodes == 1..MaxNodes
\* the native thread identities A and B that call into the pool
Identities == {1, 2}
\* the work units (ULTs) that move in and out of the pool
Units == 1..MaxUnits
\* the callers that attach schedulers to the pool and detach them
Schedulers == 1..MaxScheds

\* cond.c:131-142: the caller's context. Odd callers run on an execution
\* stream (lp_ABTI_local # NULL), even callers are external threads.
OnXstream(t) == t % 2 = 1

\* cond.c:137, 141: the unit type ABT_cond_wait gives the caller
UnitType(t) == IF OnXstream(t) THEN "THREAD" ELSE "EXT"

\* content of a node the allocator hands out or has taken back
Garbage == [current |-> NULL, next |-> NULL, type |-> "UNINIT"]

VARIABLES
    cvLive,        \* the handle refers to a created, not yet freed ABTI_cond
    guard,         \* owner of p_cond->mutex, NULL when free
    waiter_mutex,  \* p_cond->waiter_mutex
    num_waiters,   \* p_cond->num_waiters
    head,          \* p_cond->waiters.head
    tail,          \* p_cond->waiters.tail
    node,          \* heap of ABTI_thread_entry: current, next, type
    allocated,     \* entries that are malloc'ed and not freed
    mutexOwner,    \* owner of each user mutex, NULL when free
    pc,            \* each caller's position
    wmutex,        \* ABT_cond_wait: argument mutex
    ext_signal,    \* ABT_cond_wait: local volatile int ext_signal
    thrState,      \* state of the caller's ULT
    lhead,         \* ABT_cond_signal / ABT_cond_broadcast: local head
    op,            \* the operation the caller is in, or returned from last
    ret,           \* abt_errno of the caller's last return
    aborted,       \* the process was stopped (failed assert, NULL dereference)
    mallocNull,    \* the caller whose ABTU_malloc returned NULL, or NULL
    order,         \* history: callers enqueued and not yet woken, oldest first
    woken,         \* history: the caller's target was woken in this wait
    wokeSeq,       \* history: targets woken by the caller's current call
    snapQ,         \* history: the queue found when the caller took guard
    nfree,         \* history: entries freed by the caller's current call
    nalloc,        \* history: entries allocated by the caller's current call
    nrel,          \* history: unlocks of the user mutex in the caller's wait
    nacq,          \* history: locks of the user mutex in the caller's wait
    everWaited     \* history: a wait enqueued since the CV was created

\* ---- the pool facade (src/src/include/abti_pool.h) ----
VARIABLES
    producer_id,     \* p_pool->producer_id, NULL until a producer is installed
    consumer_id,     \* p_pool->consumer_id, NULL until a consumer is installed
    queue,           \* the units in the queue behind the vtable
    num_blocked,     \* p_pool->num_blocked
    num_migrations,  \* p_pool->num_migrations
    num_scheds,      \* p_pool->num_scheds
    counted,         \* per unit: the counter its ULT is accounted in, or "none"
    ustate,          \* per unit: p_thread->state of its ULT
    ppc,             \* each pool caller's position
    punit,           \* the unit of the caller's current call
    poper,           \* the pool operation the caller is in, or returned from last
    pret,            \* what the caller's last pool call returned
    tpc,             \* ABTI_pool_get_total_size: the reader's position
    total_size,      \* ABTI_pool_get_total_size: local total_size
    spc,             \* each scheduler's position in ABTI_pool_release
    asserted,        \* ABTI_ASSERT failed and stopped the process
    via,             \* history: per unit in the queue, the call that pushed it
    stayed,          \* history: units in the pool ever since the reader started
    quiet,           \* history: the pool did not change since the reader started
    rret,            \* ABTI_pool_release: the value the caller's last call returned
    balance,         \* history: retains minus decrements of releases so far
    unmatched        \* history: a release began with no retain left for it to release

poolVars == <<producer_id, consumer_id, queue, num_blocked, num_migrations,
              counted, ustate, ppc, punit, poper, pret, tpc, total_size,
              via, stayed, quiet>>
schedVars == <<num_scheds, spc, asserted, rret, balance, unmatched>>
poolAll == <<poolVars, schedVars>>

cvVars == <<waiter_mutex, num_waiters, head, tail, node, allocated>>
callVars == <<wmutex, lhead>>
histVars == <<order, woken, wokeSeq, snapQ, nfree, nalloc, nrel, nacq, everWaited>>
cvAll == <<cvLive, guard, cvVars, mutexOwner, pc, callVars, ext_signal, thrState,
           op, ret, aborted, mallocNull, histVars>>
vars == <<cvAll, poolAll>>

\* ---- helpers ----

\* the entries reached from n by next links, n first (at most k of them)
RECURSIVE WalkFrom(_, _)
WalkFrom(n, k) ==
    IF n = NULL \/ k = 0 THEN <<>>
    ELSE <<n>> \o WalkFrom(node[n].next, k - 1)

Walk == WalkFrom(head, MaxNodes + 1)

\* the targets of the entries of the list, in list order
QueueTargets ==
    LET w == Walk
        f == [i \in 1..Len(w) |-> node[w[i]].current]
    IN  SelectSeq(f, LAMBDA c : c # NULL)

\* the mutex the caller holds (callers hold at most one)
HeldBy(t) == {m \in Mutexes : mutexOwner[m] = t}

\* an allocated entry names t as its target
Enqueued(t) == \E n \in allocated : node[n].current = t

RemoveFirst(s, c) == SelectSeq(s, LAMBDA x : x # c)

Idle(t) == pc[t] = "idle" /\ ~aborted

\* the pool after its creation: empty, no producer or consumer installed, no
\* scheduler attached
PoolInit ==
    /\ producer_id = NULL
    /\ consumer_id = NULL
    /\ queue = {}
    /\ num_blocked = 0
    /\ num_migrations = 0
    /\ num_scheds = 0
    /\ counted = [u \in Units |-> "none"]
    /\ ustate = [u \in Units |-> "RUNNING"]
    /\ ppc = [p \in Identities |-> "idle"]
    /\ punit = [p \in Identities |-> NULL]
    /\ poper = [p \in Identities |-> "none"]
    /\ pret = [p \in Identities |-> "none"]
    /\ tpc = "idle"
    /\ total_size = 0
    /\ asserted = FALSE
    /\ via = [u \in Units |-> "none"]
    /\ stayed = {}
    /\ quiet = TRUE
    /\ spc = [p \in Schedulers |-> "idle"]
    /\ rret = [p \in Schedulers |-> <<>>]
    /\ balance = 0
    /\ unmatched = FALSE

Init ==
    /\ cvLive = TRUE
    /\ guard = NULL
    /\ waiter_mutex = ABT_MUTEX_NULL
    /\ num_waiters = 0
    /\ head = 1
    /\ tail = 1
    /\ node = [n \in Nodes |-> Garbage]
    /\ allocated = {1}
    /\ mutexOwner = [m \in Mutexes |-> NULL]
    /\ pc = [t \in Callers |-> "idle"]
    /\ wmutex = [t \in Callers |-> ABT_MUTEX_NULL]
    /\ ext_signal = [t \in Callers |-> 0]
    /\ thrState = [t \in Callers |-> "RUNNING"]
    /\ lhead = [t \in Callers |-> NULL]
    /\ op = [t \in Callers |-> "none"]
    /\ ret = [t \in Callers |-> "none"]
    /\ aborted = FALSE
    /\ mallocNull = NULL
    /\ order = <<>>
    /\ woken = [t \in Callers |-> FALSE]
    /\ wokeSeq = [t \in Callers |-> <<>>]
    /\ snapQ = [t \in Callers |-> <<>>]
    /\ nfree = [t \in Callers |-> 0]
    /\ nalloc = [t \in Callers |-> 0]
    /\ nrel = [t \in Callers |-> 0]
    /\ nacq = [t \in Callers |-> 0]
    /\ everWaited = FALSE
    /\ PoolInit


\* ---- collaborators: the ULT state machine and the allocator ----

\* ABTI_thread_set_blocked: the ULT's state becomes BLOCKED
ABTI_thread_set_blocked(s, c) == [s EXCEPT ![c] = "BLOCKED"]

\* ABTI_thread_set_ready: the ULT's state becomes READY
ABTI_thread_set_ready(s, c) == [s EXCEPT ![c] = "READY"]

\* ABTI_thread_suspend returns once the ULT has been made READY and is run again
SuspendReturns(t) == thrState[t] = "READY"

\* ABTU_malloc may return any entry that is not in use
MallocChoices == Nodes \ allocated

\* ---- user mutex, outside the CV ----

\* what a caller keeps of its last call is dropped when it moves on
Forget(f, t, v) == [f EXCEPT ![t] = v]

MutexLock(t, m) ==
    /\ Idle(t)
    /\ HeldBy(t) = {}
    /\ mutexOwner[m] = NULL
    /\ mutexOwner' = [mutexOwner EXCEPT ![m] = t]
    /\ op' = Forget(op, t, "none")
    /\ ret' = Forget(ret, t, "none")
    /\ UNCHANGED <<cvLive, guard, cvVars, pc, callVars, ext_signal, thrState,
                   aborted, histVars, mallocNull>>
    /\ UNCHANGED poolAll

MutexUnlock(t) ==
    /\ Idle(t)
    /\ HeldBy(t) # {}
    /\ mutexOwner' = [m \in Mutexes |-> IF mutexOwner[m] = t THEN NULL ELSE mutexOwner[m]]
    /\ op' = Forget(op, t, "none")
    /\ ret' = Forget(ret, t, "none")
    /\ wmutex' = Forget(wmutex, t, ABT_MUTEX_NULL)
    /\ ext_signal' = Forget(ext_signal, t, 0)
    /\ woken' = Forget(woken, t, FALSE)
    /\ nrel' = Forget(nrel, t, 0)
    /\ nacq' = Forget(nacq, t, 0)
    /\ UNCHANGED <<cvLive, guard, cvVars, pc, lhead, thrState, aborted, order,
                   wokeSeq, snapQ, nfree, nalloc, everWaited, mallocNull>>
    /\ UNCHANGED poolAll

\* ---- ABT_cond_wait ----

\* cond.c:121-144: entry, handle check, caller kind, ABT_mutex_spinlock(p_cond->mutex).
\* cur: ABTI_local_get_thread() finds a current ULT.
CondWaitCall(t, cur) ==
    /\ Idle(t)
    /\ t \in Waiters
    /\ HeldBy(t) # {}
    /\ op' = [op EXCEPT ![t] = "wait"]
    /\ wmutex' = [wmutex EXCEPT ![t] = CHOOSE m \in Mutexes : mutexOwner[m] = t]
    /\ ext_signal' = [ext_signal EXCEPT ![t] = 0]
    /\ woken' = [woken EXCEPT ![t] = FALSE]
    /\ nrel' = [nrel EXCEPT ![t] = 0]
    /\ nacq' = [nacq EXCEPT ![t] = 0]
    /\ IF ~cvLive
         THEN /\ ret' = [ret EXCEPT ![t] = "ABT_ERR_INV_COND"]
              /\ UNCHANGED <<pc, guard, snapQ>>
         ELSE IF OnXstream(t) /\ ~cur
         THEN /\ ret' = [ret EXCEPT ![t] = "ABT_ERR_COND"]
              /\ UNCHANGED <<pc, guard, snapQ>>
         ELSE /\ guard = NULL
              /\ guard' = t
              /\ snapQ' = [snapQ EXCEPT ![t] = QueueTargets]
              /\ ret' = [ret EXCEPT ![t] = "none"]
              /\ pc' = [pc EXCEPT ![t] = "w_assoc"]
    /\ UNCHANGED <<cvLive, cvVars, mutexOwner, lhead, thrState, aborted,
                   order, wokeSeq, nfree, nalloc, everWaited, mallocNull>>
    /\ UNCHANGED poolAll

\* mutant: the mutexes are not compared; the last caller's mutex is associated
WaitAssoc_Overwrite(t) ==
    /\ pc[t] = "w_assoc" /\ ~aborted
    /\ waiter_mutex' = wmutex[t]
    /\ pc' = [pc EXCEPT ![t] = "w_enq"]
    /\ UNCHANGED <<cvLive, guard, num_waiters, head, tail, node, allocated,
                   mutexOwner, callVars, ext_signal, thrState, op, ret, aborted,
                   histVars, mallocNull>>
    /\ UNCHANGED poolAll

\* mutant: the mismatch path returns without releasing guard
WaitAssoc_NoUnlock(t) ==
    /\ pc[t] = "w_assoc" /\ ~aborted
    /\ IF waiter_mutex = ABT_MUTEX_NULL
         THEN /\ waiter_mutex' = wmutex[t]
              /\ pc' = [pc EXCEPT ![t] = "w_enq"]
              /\ UNCHANGED <<ret, snapQ>>
         ELSE IF waiter_mutex = wmutex[t]
         THEN /\ pc' = [pc EXCEPT ![t] = "w_enq"]
              /\ UNCHANGED <<ret, waiter_mutex, snapQ>>
         ELSE /\ ret' = [ret EXCEPT ![t] = "ABT_ERR_INV_MUTEX"]
              /\ pc' = [pc EXCEPT ![t] = "idle"]
              /\ snapQ' = [snapQ EXCEPT ![t] = <<>>]
              /\ UNCHANGED waiter_mutex
    /\ UNCHANGED <<cvLive, guard, num_waiters, head, tail, node, allocated,
                   mutexOwner, callVars, ext_signal, thrState, op, aborted,
                   order, woken, wokeSeq, nfree, nalloc, nrel, nacq, everWaited,
                   mallocNull>>
    /\ UNCHANGED poolAll

\* mutant: the user mutex is released as soon as it is associated, before the
\* caller is enqueued
WaitAssoc_EarlyUnlock(t) ==
    /\ pc[t] = "w_assoc" /\ ~aborted
    /\ IF waiter_mutex = ABT_MUTEX_NULL
         THEN /\ waiter_mutex' = wmutex[t]
              /\ mutexOwner' = [mutexOwner EXCEPT ![wmutex[t]] = NULL]
              /\ pc' = [pc EXCEPT ![t] = "w_enq"]
              /\ UNCHANGED <<guard, ret, snapQ>>
         ELSE IF waiter_mutex = wmutex[t]
         THEN /\ mutexOwner' = [mutexOwner EXCEPT ![wmutex[t]] = NULL]
              /\ pc' = [pc EXCEPT ![t] = "w_enq"]
              /\ UNCHANGED <<guard, ret, waiter_mutex, snapQ>>
         ELSE /\ guard' = NULL
              /\ ret' = [ret EXCEPT ![t] = "ABT_ERR_INV_MUTEX"]
              /\ pc' = [pc EXCEPT ![t] = "idle"]
              /\ snapQ' = [snapQ EXCEPT ![t] = <<>>]
              /\ UNCHANGED <<waiter_mutex, mutexOwner>>
    /\ UNCHANGED <<cvLive, num_waiters, head, tail, node, allocated,
                   callVars, ext_signal, thrState, op, aborted, order, woken,
                   wokeSeq, nfree, nalloc, nrel, nacq, everWaited, mallocNull>>
    /\ UNCHANGED poolAll

\* cond.c:146-156: associate the mutex, or reject a different one
WaitAssoc(t) ==
    /\ pc[t] = "w_assoc" /\ ~aborted
    /\ IF waiter_mutex = ABT_MUTEX_NULL
         THEN /\ waiter_mutex' = wmutex[t]
              /\ pc' = [pc EXCEPT ![t] = "w_enq"]
              /\ UNCHANGED <<guard, ret, snapQ>>
         ELSE IF waiter_mutex = wmutex[t]
         THEN /\ pc' = [pc EXCEPT ![t] = "w_enq"]
              /\ UNCHANGED <<guard, ret, waiter_mutex, snapQ>>
         ELSE /\ guard' = NULL
              /\ ret' = [ret EXCEPT ![t] = "ABT_ERR_INV_MUTEX"]
              /\ pc' = [pc EXCEPT ![t] = "idle"]
              /\ snapQ' = [snapQ EXCEPT ![t] = <<>>]
              /\ UNCHANGED waiter_mutex
    /\ UNCHANGED <<cvLive, num_waiters, head, tail, node, allocated, mutexOwner,
                   callVars, ext_signal, thrState, op, aborted, order, woken,
                   wokeSeq, nfree, nalloc, nrel, nacq, everWaited, mallocNull>>
    /\ UNCHANGED poolAll

\* mutant: the new entry is linked behind tail and tail is not moved to it
WaitEnqueue_NoTail(t) ==
    /\ pc[t] = "w_enq" /\ ~aborted
    /\ IF num_waiters = 0
         THEN /\ node' = [node EXCEPT ![head].current = t, ![head].type = UnitType(t)]
              /\ UNCHANGED <<allocated, nalloc>>
         ELSE \E n \in MallocChoices :
              /\ allocated' = allocated \cup {n}
              /\ node' = [node EXCEPT ![tail].next = n,
                                      ![n] = [current |-> t, next |-> NULL,
                                              type |-> UnitType(t)]]
              /\ nalloc' = [nalloc EXCEPT ![t] = @ + 1]
    /\ order' = Append(order, t)
    /\ everWaited' = TRUE
    /\ pc' = [pc EXCEPT ![t] = "w_inc"]
    /\ UNCHANGED <<cvLive, guard, waiter_mutex, num_waiters, head, tail,
                   mutexOwner, callVars, ext_signal, thrState, op, ret, aborted,
                   woken, wokeSeq, snapQ, nfree, nrel, nacq, mallocNull>>
    /\ UNCHANGED poolAll

\* cond.c:158-172: reuse the head entry, or allocate one and link it at tail
WaitEnqueue(t) ==
    /\ pc[t] = "w_enq" /\ ~aborted
    /\ IF num_waiters = 0
         THEN /\ node' = [node EXCEPT ![head].current = t, ![head].type = UnitType(t)]
              /\ UNCHANGED <<tail, allocated, nalloc>>
         ELSE \E n \in MallocChoices :
              /\ allocated' = allocated \cup {n}
              /\ node' = [node EXCEPT ![tail].next = n,
                                      ![n] = [current |-> t, next |-> NULL,
                                              type |-> UnitType(t)]]
              /\ tail' = n
              /\ nalloc' = [nalloc EXCEPT ![t] = @ + 1]
    /\ order' = Append(order, t)
    /\ everWaited' = TRUE
    /\ pc' = [pc EXCEPT ![t] = "w_inc"]
    /\ UNCHANGED <<cvLive, guard, waiter_mutex, num_waiters, head, mutexOwner,
                   callVars, ext_signal, thrState, op, ret, aborted, woken,
                   wokeSeq, snapQ, nfree, nrel, nacq, mallocNull>>
    /\ UNCHANGED poolAll

\* cond.c:163-164: ABTU_malloc returns NULL and the assert stops the process
WaitAllocFail(t) ==
    /\ pc[t] = "w_enq" /\ ~aborted
    /\ num_waiters # 0
    /\ mallocNull' = t
    /\ aborted' = TRUE
    /\ UNCHANGED <<cvLive, guard, cvVars, mutexOwner, pc, callVars, ext_signal,
                   thrState, op, ret, histVars>>
    /\ UNCHANGED poolAll

\* cond.c:174: p_cond->num_waiters++
WaitIncrement(t) ==
    /\ pc[t] = "w_inc" /\ ~aborted
    /\ num_waiters' = num_waiters + 1
    /\ pc' = [pc EXCEPT ![t] = "w_blk"]
    /\ UNCHANGED <<cvLive, guard, waiter_mutex, head, tail, node, allocated,
                   mutexOwner, callVars, ext_signal, thrState, op, ret, aborted,
                   histVars, mallocNull>>
    /\ UNCHANGED poolAll

\* mutant: the caller is enqueued and guard released without marking the ULT
\* blocked
WaitSetBlocked_Skip(t) ==
    /\ pc[t] = "w_blk" /\ ~aborted
    /\ pc' = [pc EXCEPT ![t] = "w_unl"]
    /\ UNCHANGED <<cvLive, guard, cvVars, mutexOwner, callVars, ext_signal,
                   thrState, op, ret, aborted, histVars, mallocNull>>
    /\ UNCHANGED poolAll

\* cond.c:176-179: a ULT is marked BLOCKED
WaitSetBlocked(t) ==
    /\ pc[t] = "w_blk" /\ ~aborted
    /\ thrState' = IF UnitType(t) = "THREAD"
                     THEN ABTI_thread_set_blocked(thrState, t)
                     ELSE thrState
    /\ pc' = [pc EXCEPT ![t] = "w_unl"]
    /\ UNCHANGED <<cvLive, guard, cvVars, mutexOwner, callVars, ext_signal,
                   op, ret, aborted, histVars, mallocNull>>
    /\ UNCHANGED poolAll

\* cond.c:181: ABT_mutex_unlock(p_cond->mutex)
WaitUnlockGuard(t) ==
    /\ pc[t] = "w_unl" /\ ~aborted
    /\ guard' = NULL
    /\ snapQ' = [snapQ EXCEPT ![t] = <<>>]
    /\ nalloc' = [nalloc EXCEPT ![t] = 0]
    /\ pc' = [pc EXCEPT ![t] = "w_umx"]
    /\ UNCHANGED <<cvLive, cvVars, mutexOwner, callVars, ext_signal, thrState,
                   op, ret, aborted, order, woken, wokeSeq, nfree,
                   nrel, nacq, everWaited, mallocNull>>
    /\ UNCHANGED poolAll

\* cond.c:185: ABT_mutex_unlock(mutex)
WaitUnlockMutex(t) ==
    /\ pc[t] = "w_umx" /\ ~aborted
    /\ mutexOwner' = [mutexOwner EXCEPT ![wmutex[t]] = NULL]
    /\ nrel' = [nrel EXCEPT ![t] = @ + 1]
    /\ pc' = [pc EXCEPT ![t] = "w_susp"]
    /\ UNCHANGED <<cvLive, guard, cvVars, callVars, ext_signal, thrState, op,
                   ret, aborted, order, woken, wokeSeq, snapQ, nfree, nalloc,
                   nacq, everWaited, mallocNull>>
    /\ UNCHANGED poolAll

\* mutant: the external thread does not poll its flag and goes on at once
WaitSuspend_NoPoll(t) ==
    /\ pc[t] = "w_susp" /\ ~aborted
    /\ IF UnitType(t) = "THREAD"
         THEN /\ SuspendReturns(t)
              /\ thrState' = [thrState EXCEPT ![t] = "RUNNING"]
         ELSE UNCHANGED thrState
    /\ pc' = [pc EXCEPT ![t] = "w_lock"]
    /\ UNCHANGED <<cvLive, guard, cvVars, mutexOwner, callVars, ext_signal,
                   op, ret, aborted, histVars, mallocNull>>
    /\ UNCHANGED poolAll

\* cond.c:187-194: the ULT suspends; the external thread polls ext_signal
WaitSuspend(t) ==
    /\ pc[t] = "w_susp" /\ ~aborted
    /\ IF UnitType(t) = "THREAD"
         THEN /\ SuspendReturns(t)
              /\ thrState' = [thrState EXCEPT ![t] = "RUNNING"]
         ELSE /\ ext_signal[t] # 0
              /\ UNCHANGED thrState
    /\ pc' = [pc EXCEPT ![t] = "w_lock"]
    /\ UNCHANGED <<cvLive, guard, cvVars, mutexOwner, callVars, ext_signal,
                   op, ret, aborted, histVars, mallocNull>>
    /\ UNCHANGED poolAll

\* mutant: wait returns without locking the user mutex again
WaitRelock_NoLock(t) ==
    /\ pc[t] = "w_lock" /\ ~aborted
    /\ ret' = [ret EXCEPT ![t] = "ABT_SUCCESS"]
    /\ pc' = [pc EXCEPT ![t] = "idle"]
    /\ UNCHANGED <<cvLive, guard, cvVars, mutexOwner, callVars, ext_signal,
                   thrState, op, aborted, order, woken, wokeSeq, snapQ, nfree,
                   nalloc, nrel, nacq, everWaited, mallocNull>>
    /\ UNCHANGED poolAll

\* cond.c:197-200: ABT_mutex_lock(mutex) and return
WaitRelock(t) ==
    /\ pc[t] = "w_lock" /\ ~aborted
    /\ mutexOwner[wmutex[t]] = NULL
    /\ mutexOwner' = [mutexOwner EXCEPT ![wmutex[t]] = t]
    /\ nacq' = [nacq EXCEPT ![t] = @ + 1]
    /\ ret' = [ret EXCEPT ![t] = "ABT_SUCCESS"]
    /\ pc' = [pc EXCEPT ![t] = "idle"]
    /\ UNCHANGED <<cvLive, guard, cvVars, callVars, ext_signal, thrState, op,
                   aborted, order, woken, wokeSeq, snapQ, nfree, nalloc, nrel,
                   everWaited, mallocNull>>
    /\ UNCHANGED poolAll


\* ---- waking one entry's target (cond.c:236-242, 293-299, 304-310) ----

\* mutant: the store to an external thread's flag is left out
WakeEntry_DropExt(t, n) ==
    LET c == node[n].current IN
    IF c = NULL
      THEN /\ aborted' = TRUE
           /\ UNCHANGED <<thrState, ext_signal, woken, order, wokeSeq>>
      ELSE /\ IF node[n].type = "THREAD"
                THEN thrState' = ABTI_thread_set_ready(thrState, c)
                ELSE UNCHANGED thrState
           /\ woken' = [woken EXCEPT ![c] = TRUE]
           /\ order' = RemoveFirst(order, c)
           /\ wokeSeq' = [wokeSeq EXCEPT ![t] = Append(@, c)]
           /\ UNCHANGED <<aborted, ext_signal>>

\* a ULT is set READY, an external thread's flag is set to 1; a NULL target
\* is a NULL dereference, which stops the process
WakeEntry(t, n) ==
    LET c == node[n].current IN
    IF c = NULL
      THEN /\ aborted' = TRUE
           /\ UNCHANGED <<thrState, ext_signal, woken, order, wokeSeq>>
      ELSE /\ IF node[n].type = "THREAD"
                THEN /\ thrState' = ABTI_thread_set_ready(thrState, c)
                     /\ UNCHANGED ext_signal
                ELSE /\ ext_signal' = [ext_signal EXCEPT ![c] = 1]
                     /\ UNCHANGED thrState
           /\ woken' = [woken EXCEPT ![c] = TRUE]
           /\ order' = RemoveFirst(order, c)
           /\ wokeSeq' = [wokeSeq EXCEPT ![t] = Append(@, c)]
           /\ UNCHANGED aborted

\* ---- ABT_cond_signal ----

\* cond.c:221-227: entry, handle check, ABT_mutex_lock(p_cond->mutex)
CondSignalCall(t) ==
    /\ Idle(t)
    /\ t \in Signalers
    /\ op' = [op EXCEPT ![t] = "signal"]
    /\ IF cvLive
         THEN /\ guard = NULL
              /\ guard' = t
              /\ snapQ' = [snapQ EXCEPT ![t] = QueueTargets]
              /\ pc' = [pc EXCEPT ![t] = "s_chk"]
              /\ ret' = [ret EXCEPT ![t] = "none"]
         ELSE /\ ret' = [ret EXCEPT ![t] = "ABT_ERR_INV_COND"]
              /\ UNCHANGED <<pc, guard, snapQ>>
    /\ UNCHANGED <<cvLive, cvVars, mutexOwner, callVars, ext_signal, thrState,
                   aborted, order, woken, wokeSeq, nfree, nalloc, nrel, nacq,
                   everWaited, mallocNull>>
    /\ UNCHANGED poolAll

\* cond.c:229-232: nothing to do when nobody waits
SignalCheck(t) ==
    /\ pc[t] = "s_chk" /\ ~aborted
    /\ IF num_waiters = 0
         THEN /\ guard' = NULL
              /\ ret' = [ret EXCEPT ![t] = "ABT_SUCCESS"]
              /\ pc' = [pc EXCEPT ![t] = "idle"]
              /\ snapQ' = [snapQ EXCEPT ![t] = <<>>]
         ELSE /\ pc' = [pc EXCEPT ![t] = "s_wake"]
              /\ UNCHANGED <<guard, ret, snapQ>>
    /\ UNCHANGED <<cvLive, cvVars, mutexOwner, callVars, ext_signal, thrState,
                   op, aborted, order, woken, wokeSeq, nfree, nalloc, nrel,
                   nacq, everWaited, mallocNull>>
    /\ UNCHANGED poolAll

\* mutant: the signal wakes the target of the tail entry
SignalWake_Tail(t) ==
    /\ pc[t] = "s_wake" /\ ~aborted
    /\ lhead' = [lhead EXCEPT ![t] = head]
    /\ WakeEntry(t, tail)
    /\ pc' = [pc EXCEPT ![t] = "s_deq"]
    /\ UNCHANGED <<cvLive, guard, cvVars, mutexOwner, wmutex, op, ret,
                   snapQ, nfree, nalloc, nrel, nacq, everWaited, mallocNull>>
    /\ UNCHANGED poolAll

\* cond.c:234-242: wake the target of the head entry
SignalWake(t) ==
    /\ pc[t] = "s_wake" /\ ~aborted
    /\ lhead' = [lhead EXCEPT ![t] = head]
    /\ WakeEntry(t, head)
    /\ pc' = [pc EXCEPT ![t] = "s_deq"]
    /\ UNCHANGED <<cvLive, guard, cvVars, mutexOwner, wmutex, op, ret,
                   snapQ, nfree, nalloc, nrel, nacq, everWaited, mallocNull>>
    /\ UNCHANGED poolAll

\* mutant: the last waiter is dequeued and waiter_mutex is left set
SignalDequeue_KeepMutex(t) ==
    /\ pc[t] = "s_deq" /\ ~aborted
    /\ IF num_waiters = 1
         THEN /\ node' = [node EXCEPT ![lhead[t]].current = NULL]
              /\ UNCHANGED <<head, allocated, nfree>>
         ELSE /\ head' = node[lhead[t]].next
              /\ allocated' = allocated \ {lhead[t]}
              /\ node' = [node EXCEPT ![lhead[t]] = Garbage]
              /\ nfree' = [nfree EXCEPT ![t] = @ + 1]
    /\ pc' = [pc EXCEPT ![t] = "s_dec"]
    /\ UNCHANGED <<cvLive, guard, waiter_mutex, num_waiters, tail, mutexOwner,
                   callVars, ext_signal, thrState, op, ret, aborted, order,
                   woken, wokeSeq, snapQ, nalloc, nrel, nacq, everWaited,
                   mallocNull>>
    /\ UNCHANGED poolAll

\* mutant: the signal frees the head entry also when it is the last one
SignalDequeue_FreeLast(t) ==
    /\ pc[t] = "s_deq" /\ ~aborted
    /\ IF num_waiters = 1
         THEN /\ allocated' = allocated \ {lhead[t]}
              /\ node' = [node EXCEPT ![lhead[t]] = Garbage]
              /\ nfree' = [nfree EXCEPT ![t] = @ + 1]
              /\ waiter_mutex' = ABT_MUTEX_NULL
              /\ UNCHANGED head
         ELSE /\ head' = node[lhead[t]].next
              /\ allocated' = allocated \ {lhead[t]}
              /\ node' = [node EXCEPT ![lhead[t]] = Garbage]
              /\ nfree' = [nfree EXCEPT ![t] = @ + 1]
              /\ UNCHANGED waiter_mutex
    /\ pc' = [pc EXCEPT ![t] = "s_dec"]
    /\ UNCHANGED <<cvLive, guard, num_waiters, tail, mutexOwner, callVars,
                   ext_signal, thrState, op, ret, aborted, order, woken,
                   wokeSeq, snapQ, nalloc, nrel, nacq, everWaited, mallocNull>>
    /\ UNCHANGED poolAll

\* cond.c:244-250: empty the head entry when it is the last, else unlink and free it
SignalDequeue(t) ==
    /\ pc[t] = "s_deq" /\ ~aborted
    /\ IF num_waiters = 1
         THEN /\ node' = [node EXCEPT ![lhead[t]].current = NULL]
              /\ waiter_mutex' = ABT_MUTEX_NULL
              /\ UNCHANGED <<head, allocated, nfree>>
         ELSE /\ head' = node[lhead[t]].next
              /\ allocated' = allocated \ {lhead[t]}
              /\ node' = [node EXCEPT ![lhead[t]] = Garbage]
              /\ nfree' = [nfree EXCEPT ![t] = @ + 1]
              /\ UNCHANGED waiter_mutex
    /\ pc' = [pc EXCEPT ![t] = "s_dec"]
    /\ UNCHANGED <<cvLive, guard, num_waiters, tail, mutexOwner, callVars,
                   ext_signal, thrState, op, ret, aborted, order, woken,
                   wokeSeq, snapQ, nalloc, nrel, nacq, everWaited, mallocNull>>
    /\ UNCHANGED poolAll

\* cond.c:252: p_cond->num_waiters--
SignalDecrement(t) ==
    /\ pc[t] = "s_dec" /\ ~aborted
    /\ num_waiters' = num_waiters - 1
    /\ pc' = [pc EXCEPT ![t] = "s_unl"]
    /\ UNCHANGED <<cvLive, guard, waiter_mutex, head, tail, node, allocated,
                   mutexOwner, callVars, ext_signal, thrState, op, ret, aborted,
                   histVars, mallocNull>>
    /\ UNCHANGED poolAll

\* cond.c:254-257: ABT_mutex_unlock(p_cond->mutex) and return
SignalUnlock(t) ==
    /\ pc[t] = "s_unl" /\ ~aborted
    /\ guard' = NULL
    /\ ret' = [ret EXCEPT ![t] = "ABT_SUCCESS"]
    /\ lhead' = [lhead EXCEPT ![t] = NULL]
    /\ wokeSeq' = [wokeSeq EXCEPT ![t] = <<>>]
    /\ snapQ' = [snapQ EXCEPT ![t] = <<>>]
    /\ nfree' = [nfree EXCEPT ![t] = 0]
    /\ pc' = [pc EXCEPT ![t] = "idle"]
    /\ UNCHANGED <<cvLive, cvVars, mutexOwner, wmutex, ext_signal,
                   thrState, op, aborted, order, woken, nalloc, nrel, nacq,
                   everWaited, mallocNull>>
    /\ UNCHANGED poolAll

\* ---- ABT_cond_broadcast ----

\* cond.c:277-283: entry, handle check, ABT_mutex_lock(p_cond->mutex)
CondBroadcastCall(t) ==
    /\ Idle(t)
    /\ t \in Signalers
    /\ op' = [op EXCEPT ![t] = "broadcast"]
    /\ IF cvLive
         THEN /\ guard = NULL
              /\ guard' = t
              /\ snapQ' = [snapQ EXCEPT ![t] = QueueTargets]
              /\ pc' = [pc EXCEPT ![t] = "b_chk"]
              /\ ret' = [ret EXCEPT ![t] = "none"]
         ELSE /\ ret' = [ret EXCEPT ![t] = "ABT_ERR_INV_COND"]
              /\ UNCHANGED <<pc, guard, snapQ>>
    /\ UNCHANGED <<cvLive, cvVars, mutexOwner, callVars, ext_signal, thrState,
                   aborted, order, woken, wokeSeq, nfree, nalloc, nrel, nacq,
                   everWaited, mallocNull>>
    /\ UNCHANGED poolAll

\* mutant: broadcast does not test num_waiters and always walks the list
BroadcastCheck_NoTest(t) ==
    /\ pc[t] = "b_chk" /\ ~aborted
    /\ pc' = [pc EXCEPT ![t] = "b_wake"]
    /\ UNCHANGED <<cvLive, guard, cvVars, mutexOwner, callVars, ext_signal,
                   thrState, op, ret, aborted, histVars, mallocNull>>
    /\ UNCHANGED poolAll

\* cond.c:285-288: nothing to do when nobody waits
BroadcastCheck(t) ==
    /\ pc[t] = "b_chk" /\ ~aborted
    /\ IF num_waiters = 0
         THEN /\ guard' = NULL
              /\ ret' = [ret EXCEPT ![t] = "ABT_SUCCESS"]
              /\ pc' = [pc EXCEPT ![t] = "idle"]
              /\ snapQ' = [snapQ EXCEPT ![t] = <<>>]
         ELSE /\ pc' = [pc EXCEPT ![t] = "b_wake"]
              /\ UNCHANGED <<guard, ret, snapQ>>
    /\ UNCHANGED <<cvLive, cvVars, mutexOwner, callVars, ext_signal, thrState,
                   op, aborted, order, woken, wokeSeq, nfree, nalloc, nrel,
                   nacq, everWaited, mallocNull>>
    /\ UNCHANGED poolAll

\* cond.c:290-302: wake the head entry's target, empty the entry, step to the next
BroadcastWakeHead(t) ==
    /\ pc[t] = "b_wake" /\ ~aborted
    /\ WakeEntry(t, head)
    /\ node' = [node EXCEPT ![head].current = NULL]
    /\ lhead' = [lhead EXCEPT ![t] = node[head].next]
    /\ pc' = [pc EXCEPT ![t] = "b_loop"]
    /\ UNCHANGED <<cvLive, guard, waiter_mutex, num_waiters, head, tail,
                   allocated, mutexOwner, wmutex, op, ret, snapQ, nfree,
                   nalloc, nrel, nacq, everWaited, mallocNull>>
    /\ UNCHANGED poolAll

\* mutant: the loop wakes the entry's target and does not free the entry
BroadcastLoop_Leak(t) ==
    /\ pc[t] = "b_loop" /\ ~aborted
    /\ lhead[t] # NULL
    /\ WakeEntry(t, lhead[t])
    /\ lhead' = [lhead EXCEPT ![t] = node[lhead[t]].next]
    /\ UNCHANGED <<cvLive, guard, cvVars, mutexOwner, pc, wmutex, op, ret,
                   snapQ, nfree, nalloc, nrel, nacq, everWaited, mallocNull>>
    /\ UNCHANGED poolAll

\* cond.c:303-314: one turn of the loop: wake the entry's target and free the entry
BroadcastLoop(t) ==
    /\ pc[t] = "b_loop" /\ ~aborted
    /\ lhead[t] # NULL
    /\ WakeEntry(t, lhead[t])
    /\ lhead' = [lhead EXCEPT ![t] = node[lhead[t]].next]
    /\ allocated' = allocated \ {lhead[t]}
    /\ node' = [node EXCEPT ![lhead[t]] = Garbage]
    /\ nfree' = [nfree EXCEPT ![t] = @ + 1]
    /\ UNCHANGED <<cvLive, guard, waiter_mutex, num_waiters, head, tail,
                   mutexOwner, pc, wmutex, op, ret, snapQ, nalloc, nrel,
                   nacq, everWaited, mallocNull>>
    /\ UNCHANGED poolAll

\* cond.c:303, 316-319: the loop ends; the kept entry becomes the empty list
BroadcastReset(t) ==
    /\ pc[t] = "b_loop" /\ ~aborted
    /\ lhead[t] = NULL
    /\ node' = [node EXCEPT ![head].next = NULL]
    /\ tail' = head
    /\ num_waiters' = 0
    /\ waiter_mutex' = ABT_MUTEX_NULL
    /\ pc' = [pc EXCEPT ![t] = "b_unl"]
    /\ UNCHANGED <<cvLive, guard, head, allocated, mutexOwner, callVars,
                   ext_signal, thrState, op, ret, aborted, histVars, mallocNull>>
    /\ UNCHANGED poolAll

\* cond.c:321-324: ABT_mutex_unlock(p_cond->mutex) and return
BroadcastUnlock(t) ==
    /\ pc[t] = "b_unl" /\ ~aborted
    /\ guard' = NULL
    /\ ret' = [ret EXCEPT ![t] = "ABT_SUCCESS"]
    /\ wokeSeq' = [wokeSeq EXCEPT ![t] = <<>>]
    /\ snapQ' = [snapQ EXCEPT ![t] = <<>>]
    /\ nfree' = [nfree EXCEPT ![t] = 0]
    /\ pc' = [pc EXCEPT ![t] = "idle"]
    /\ UNCHANGED <<cvLive, cvVars, mutexOwner, callVars, ext_signal, thrState,
                   op, aborted, order, woken, nalloc, nrel, nacq, everWaited, mallocNull>>
    /\ UNCHANGED poolAll

\* ---- ABT_cond_free and ABT_cond_create ----

\* cond.c:77-97: the caller frees a CV nobody is using; the kept entry is freed
CondFree(t) ==
    /\ t \in Signalers
    /\ \A u \in Callers : Idle(u)
    /\ cvLive
    /\ num_waiters = 0
    /\ head # NULL
    /\ allocated' = allocated \ {head}
    /\ node' = [node EXCEPT ![head] = Garbage]
    /\ head' = NULL
    /\ tail' = NULL
    /\ cvLive' = FALSE
    /\ op' = [op EXCEPT ![t] = "free"]
    /\ ret' = [ret EXCEPT ![t] = "ABT_SUCCESS"]
    /\ UNCHANGED <<guard, waiter_mutex, num_waiters, mutexOwner, pc, callVars,
                   ext_signal, thrState, aborted, histVars, mallocNull>>
    /\ UNCHANGED poolAll

\* cond.c:26-58: a new CV with one kept entry
CondCreate(t) ==
    /\ Idle(t)
    /\ t \in Signalers
    /\ ~cvLive
    /\ \E n \in MallocChoices :
         /\ allocated' = allocated \cup {n}
         /\ node' = [node EXCEPT ![n].current = NULL, ![n].next = NULL]
         /\ head' = n
         /\ tail' = n
    /\ waiter_mutex' = ABT_MUTEX_NULL
    /\ num_waiters' = 0
    /\ cvLive' = TRUE
    /\ everWaited' = FALSE
    /\ op' = [op EXCEPT ![t] = "create"]
    /\ ret' = [ret EXCEPT ![t] = "ABT_SUCCESS"]
    /\ UNCHANGED <<guard, mutexOwner, pc, callVars, ext_signal, thrState,
                   aborted, order, woken, wokeSeq, snapQ, nfree, nalloc, nrel,
                   nacq, mallocNull>>
    /\ UNCHANGED poolAll

Next ==
    \/ \E t \in Callers, m \in Mutexes : MutexLock(t, m)
    \/ \E t \in Callers : MutexUnlock(t)
    \/ \E t \in Callers, cur \in BOOLEAN : CondWaitCall(t, cur)
    \/ \E t \in Callers : WaitAssoc(t)
    \/ \E t \in Callers : WaitEnqueue(t)
    \/ \E t \in Callers : WaitAllocFail(t)
    \/ \E t \in Callers : WaitIncrement(t)
    \/ \E t \in Callers : WaitSetBlocked(t)
    \/ \E t \in Callers : WaitUnlockGuard(t)
    \/ \E t \in Callers : WaitUnlockMutex(t)
    \/ \E t \in Callers : WaitSuspend(t)
    \/ \E t \in Callers : WaitRelock(t)
    \/ \E t \in Callers : CondSignalCall(t)
    \/ \E t \in Callers : SignalCheck(t)
    \/ \E t \in Callers : SignalWake(t)
    \/ \E t \in Callers : SignalDequeue(t)
    \/ \E t \in Callers : SignalDecrement(t)
    \/ \E t \in Callers : SignalUnlock(t)
    \/ \E t \in Callers : CondBroadcastCall(t)
    \/ \E t \in Callers : BroadcastCheck(t)
    \/ \E t \in Callers : BroadcastWakeHead(t)
    \/ \E t \in Callers : BroadcastLoop(t)
    \/ \E t \in Callers : BroadcastReset(t)
    \/ \E t \in Callers : BroadcastUnlock(t)
    \/ \E t \in Callers : CondFree(t)
    \/ \E t \in Callers : CondCreate(t)

Spec == Init /\ [][Next]_vars


\* ---- the same system with every caller inside a call kept running ----

\* a step of the caller inside ABT_cond_wait, ABT_cond_signal or
\* ABT_cond_broadcast
CallStep(t) ==
    \/ WaitAssoc(t) \/ WaitEnqueue(t) \/ WaitIncrement(t) \/ WaitSetBlocked(t)
    \/ WaitUnlockGuard(t) \/ WaitUnlockMutex(t) \/ WaitSuspend(t)
    \/ WaitRelock(t)
    \/ SignalCheck(t) \/ SignalWake(t) \/ SignalDequeue(t)
    \/ SignalDecrement(t) \/ SignalUnlock(t)
    \/ BroadcastCheck(t) \/ BroadcastWakeHead(t) \/ BroadcastLoop(t)
    \/ BroadcastReset(t) \/ BroadcastUnlock(t)

\* weak fairness: a caller whose next step inside a call stays possible takes it
FairSpec == Init /\ [][Next]_vars /\ \A t \in Callers : WF_vars(CallStep(t))

\* ======================= the pool facade =======================

\* the unit's ULT is in the pool: in the queue, or blocked or migrating and
\* accounted in a counter
Present(u) == u \in queue \/ counted[u] # "none"

PresentNext(u) == u \in queue' \/ counted'[u] # "none"

\* no caller is in a call on the unit
Untouched(u) == \A q \in Identities : ppc[q] = "idle" \/ punit[q] # u

\* history kept for a running ABTI_pool_get_total_size, by every step that
\* changes the queue or a counter
Track ==
    /\ stayed' = IF tpc = "idle" THEN {} ELSE {u \in stayed : PresentNext(u)}
    /\ quiet' = (tpc = "idle")

\* ABTI_pool_set_producer: the first identity is installed, later ones compared
ABTI_pool_set_producer(id) ==
    IF producer_id \in {NULL, id} THEN "ABT_SUCCESS" ELSE "ABT_ERR_INV_POOL_ACCESS"

ProducerAfter(id) == IF producer_id = NULL THEN id ELSE producer_id

\* ABTI_pool_set_consumer: the first identity is installed, later ones compared
ABTI_pool_set_consumer(id) ==
    IF consumer_id \in {NULL, id} THEN "ABT_SUCCESS" ELSE "ABT_ERR_INV_POOL_ACCESS"

ConsumerAfter(id) == IF consumer_id = NULL THEN id ELSE consumer_id

\* mutant: the result of ABTI_pool_set_producer is not checked
ABTI_pool_push_NoCheck(p, u) ==
    /\ producer_id' = ProducerAfter(p)
    /\ ppc' = [ppc EXCEPT ![p] = "p_push"]
    /\ punit' = [punit EXCEPT ![p] = u]
    /\ pret' = [pret EXCEPT ![p] = "none"]

\* abti_pool.h:95-101: the producer gate of ABTI_pool_push
ABTI_pool_push(p, u) ==
    LET abt_errno == ABTI_pool_set_producer(p) IN
    /\ producer_id' = ProducerAfter(p)
    /\ IF abt_errno = "ABT_SUCCESS"
         THEN /\ ppc' = [ppc EXCEPT ![p] = "p_push"]
              /\ punit' = [punit EXCEPT ![p] = u]
              /\ pret' = [pret EXCEPT ![p] = "none"]
         ELSE /\ ppc' = [ppc EXCEPT ![p] = "idle"]
              /\ punit' = [punit EXCEPT ![p] = NULL]
              /\ pret' = [pret EXCEPT ![p] = abt_errno]

\* abti_pool.h:92-101: push(unit) called by identity p
PoolPushCall(p, u) ==
    /\ ppc[p] = "idle"
    /\ u \notin queue
    /\ Untouched(u)
    /\ poper' = [poper EXCEPT ![p] = "push"]
    /\ ABTI_pool_push(p, u)
    /\ UNCHANGED <<consumer_id, queue, num_blocked, num_migrations, counted,
                   ustate, tpc, total_size, via, stayed, quiet>>
    /\ UNCHANGED <<cvAll, schedVars>>

\* mutant: add_thread leaves the ULT's state as it is
AddThreadCall_NoStore(p, u) ==
    /\ ppc[p] = "idle"
    /\ u \notin queue
    /\ Untouched(u)
    /\ poper' = [poper EXCEPT ![p] = "add_thread"]
    /\ punit' = [punit EXCEPT ![p] = u]
    /\ pret' = [pret EXCEPT ![p] = "none"]
    /\ ppc' = [ppc EXCEPT ![p] = "a_push"]
    /\ UNCHANGED <<producer_id, consumer_id, queue, num_blocked, num_migrations,
                   counted, ustate, tpc, total_size, via, stayed, quiet>>
    /\ UNCHANGED <<cvAll, schedVars>>

\* abti_pool.h:114-121: add_thread stores READY into the ULT's state
AddThreadCall(p, u) ==
    /\ ppc[p] = "idle"
    /\ u \notin queue
    /\ Untouched(u)
    /\ poper' = [poper EXCEPT ![p] = "add_thread"]
    /\ punit' = [punit EXCEPT ![p] = u]
    /\ pret' = [pret EXCEPT ![p] = "none"]
    /\ ustate' = [ustate EXCEPT ![u] = "READY"]
    /\ ppc' = [ppc EXCEPT ![p] = "a_push"]
    /\ UNCHANGED <<producer_id, consumer_id, queue, num_blocked, num_migrations,
                   counted, tpc, total_size, via, stayed, quiet>>
    /\ UNCHANGED <<cvAll, schedVars>>

\* abti_pool.h:124-128: add_thread calls ABTI_pool_push and returns its error
AddThreadPush(p) ==
    /\ ppc[p] = "a_push"
    /\ ABTI_pool_push(p, punit[p])
    /\ UNCHANGED <<consumer_id, queue, num_blocked, num_migrations, counted,
                   ustate, poper, tpc, total_size, via,
                   stayed, quiet>>
    /\ UNCHANGED <<cvAll, schedVars>>

\* abti_pool.h:104-107: p_pool->p_push(pool, unit), and ABTI_pool_push returns;
\* the caller of a blocked or migrating ULT goes on to the decrement
PushVtable(p) ==
    /\ ppc[p] = "p_push"
    /\ queue' = queue \cup {punit[p]}
    /\ via' = [via EXCEPT ![punit[p]] = poper[p]]
    /\ pret' = [pret EXCEPT ![p] = "ABT_SUCCESS"]
    /\ ppc' = [ppc EXCEPT ![p] =
                 CASE counted[punit[p]] = "blocked" -> "dec_b"
                   [] counted[punit[p]] = "migrating" -> "dec_m"
                   [] OTHER -> "idle"]
    /\ punit' = [punit EXCEPT ![p] = IF counted[@] = "none" THEN NULL ELSE @]
    /\ UNCHANGED <<producer_id, consumer_id, num_blocked, num_migrations,
                   counted, ustate, poper, tpc, total_size>>
    /\ UNCHANGED <<cvAll, schedVars>>
    /\ Track

\* abti_pool.h:42-45: a ULT leaves to block; set_blocked marks it BLOCKED
ABTI_pool_inc_num_blocked(u) ==
    /\ counted[u] = "none"
    /\ u \notin queue
    /\ Untouched(u)
    /\ num_blocked' = num_blocked + 1
    /\ counted' = [counted EXCEPT ![u] = "blocked"]
    /\ ustate' = [ustate EXCEPT ![u] = "BLOCKED"]
    /\ UNCHANGED <<producer_id, consumer_id, queue, num_migrations, ppc, punit,
                   poper, pret, tpc, total_size, via>>
    /\ UNCHANGED <<cvAll, schedVars>>
    /\ Track

\* mutant: the decrement for a returned blocked ULT is applied to num_migrations
ABTI_pool_dec_num_blocked_Wrong(p) ==
    /\ ppc[p] = "dec_b"
    /\ num_migrations' = num_migrations - 1
    /\ counted' = [counted EXCEPT ![punit[p]] = "none"]
    /\ ppc' = [ppc EXCEPT ![p] = "idle"]
    /\ punit' = [punit EXCEPT ![p] = NULL]
    /\ UNCHANGED <<producer_id, consumer_id, queue, num_blocked, ustate,
                   poper, pret, tpc, total_size, via>>
    /\ UNCHANGED <<cvAll, schedVars>>
    /\ Track

\* abti_pool.h:48-51: the blocked ULT is back in the pool
ABTI_pool_dec_num_blocked(p) ==
    /\ ppc[p] = "dec_b"
    /\ num_blocked' = num_blocked - 1
    /\ counted' = [counted EXCEPT ![punit[p]] = "none"]
    /\ ppc' = [ppc EXCEPT ![p] = "idle"]
    /\ punit' = [punit EXCEPT ![p] = NULL]
    /\ UNCHANGED <<producer_id, consumer_id, queue, num_migrations, ustate,
                   poper, pret, tpc, total_size, via>>
    /\ UNCHANGED <<cvAll, schedVars>>
    /\ Track

\* abti_pool.h:54-57: the pool will receive a migrated ULT
ABTI_pool_inc_num_migrations(u) ==
    /\ counted[u] = "none"
    /\ u \notin queue
    /\ Untouched(u)
    /\ num_migrations' = num_migrations + 1
    /\ counted' = [counted EXCEPT ![u] = "migrating"]
    /\ UNCHANGED <<producer_id, consumer_id, queue, num_blocked, ustate, ppc,
                   punit, poper, pret, tpc, total_size, via>>
    /\ UNCHANGED <<cvAll, schedVars>>
    /\ Track

\* abti_pool.h:60-63: the pool has received the migrated ULT
ABTI_pool_dec_num_migrations(p) ==
    /\ ppc[p] = "dec_m"
    /\ num_migrations' = num_migrations - 1
    /\ counted' = [counted EXCEPT ![punit[p]] = "none"]
    /\ ppc' = [ppc EXCEPT ![p] = "idle"]
    /\ punit' = [punit EXCEPT ![p] = NULL]
    /\ UNCHANGED <<producer_id, consumer_id, queue, num_blocked, ustate,
                   poper, pret, tpc, total_size, via>>
    /\ UNCHANGED <<cvAll, schedVars>>
    /\ Track

\* abti_pool.h:198-202: ABTI_POOL_SET_CONSUMER, the scheduler installs itself
PoolSetConsumer(p) ==
    /\ ppc[p] = "idle"
    /\ poper' = [poper EXCEPT ![p] = "set_consumer"]
    /\ pret' = [pret EXCEPT ![p] = ABTI_pool_set_consumer(p)]
    /\ consumer_id' = ConsumerAfter(p)
    /\ UNCHANGED <<producer_id, queue, num_blocked, num_migrations, counted,
                   ustate, ppc, punit, tpc, total_size, via, stayed, quiet>>
    /\ UNCHANGED <<cvAll, schedVars>>

\* mutant: remove does not ask ABTI_pool_set_consumer
ABTI_pool_remove_NoGate(p, u) ==
    /\ ppc[p] = "idle"
    /\ poper' = [poper EXCEPT ![p] = "remove"]
    /\ UNCHANGED <<producer_id, consumer_id, num_blocked, num_migrations,
                   counted, ustate, ppc, punit, tpc, total_size>>
    /\ UNCHANGED <<cvAll, schedVars>>
    /\ IF u \in queue
         THEN /\ queue' = queue \ {u}
              /\ via' = [via EXCEPT ![u] = "none"]
              /\ pret' = [pret EXCEPT ![p] = "ABT_SUCCESS"]
              /\ Track
         ELSE /\ pret' = [pret EXCEPT ![p] = "notfound"]
              /\ UNCHANGED <<queue, via, stayed, quiet>>

\* abti_pool.h:175-194: remove(unit) called by identity p: the consumer gate,
\* then p_pool->p_remove(pool, unit)
ABTI_pool_remove(p, u) ==
    LET abt_errno == ABTI_pool_set_consumer(p) IN
    /\ ppc[p] = "idle"
    /\ poper' = [poper EXCEPT ![p] = "remove"]
    /\ consumer_id' = ConsumerAfter(p)
    /\ UNCHANGED <<producer_id, num_blocked, num_migrations, counted, ustate,
                   ppc, punit, tpc, total_size>>
    /\ UNCHANGED <<cvAll, schedVars>>
    /\ IF abt_errno # "ABT_SUCCESS"
         THEN /\ pret' = [pret EXCEPT ![p] = abt_errno]
              /\ UNCHANGED <<queue, via, stayed, quiet>>
         ELSE IF u \in queue
         THEN /\ queue' = queue \ {u}
              /\ via' = [via EXCEPT ![u] = "none"]
              /\ pret' = [pret EXCEPT ![p] = "ABT_SUCCESS"]
              /\ Track
         ELSE /\ pret' = [pret EXCEPT ![p] = "notfound"]
              /\ UNCHANGED <<queue, via, stayed, quiet>>

\* what p_pool->p_pop and p_pool->p_pop_timedwait do for caller p: any unit of
\* the queue is taken out and returned, or no unit when the queue is empty
VtablePop(p, name) ==
    /\ ppc[p] = "idle"
    /\ poper' = [poper EXCEPT ![p] = name]
    /\ UNCHANGED <<producer_id, consumer_id, num_blocked, num_migrations,
                   counted, ustate, ppc, punit, tpc, total_size>>
    /\ UNCHANGED <<cvAll, schedVars>>
    /\ IF queue = {}
         THEN /\ pret' = [pret EXCEPT ![p] = "ABT_UNIT_NULL"]
              /\ UNCHANGED <<queue, via, stayed, quiet>>
         ELSE \E u \in queue :
              /\ queue' = queue \ {u}
              /\ pret' = [pret EXCEPT ![p] = "unit"]
              /\ via' = [via EXCEPT ![u] = "none"]
              /\ Track

\* abti_pool.h:217-225: pop() called by identity p
ABTI_pool_pop(p) == VtablePop(p, "pop")

\* abti_pool.h:206-215: pop_timedwait(abstime) called by identity p
ABTI_pool_pop_timedwait(p) == VtablePop(p, "pop_timedwait")

\* the scheduler that popped a unit runs its ULT: READY becomes RUNNING
ScheduleUnit(u) ==
    /\ u \notin queue
    /\ Untouched(u)
    /\ ustate[u] = "READY"
    /\ ustate' = [ustate EXCEPT ![u] = "RUNNING"]
    /\ UNCHANGED <<producer_id, consumer_id, queue, num_blocked, num_migrations,
                   counted, ppc, punit, poper, pret, tpc, total_size, via,
                   stayed, quiet>>
    /\ UNCHANGED <<cvAll, schedVars>>

\* ---- ABTI_pool_get_total_size (abti_pool.h:247-254) ----

\* abti_pool.h:250: total_size = ABTI_pool_get_size(p_pool)
TotalSizeCall ==
    /\ tpc = "idle"
    /\ total_size' = Cardinality(queue)
    /\ tpc' = "t_blk"
    /\ stayed' = {u \in Units : Present(u)}
    /\ quiet' = TRUE
    /\ UNCHANGED <<producer_id, consumer_id, queue, num_blocked, num_migrations,
                   counted, ustate, ppc, punit, poper, pret, via>>
    /\ UNCHANGED <<cvAll, schedVars>>

\* abti_pool.h:251: total_size += num_blocked
TotalSizeBlocked ==
    /\ tpc = "t_blk"
    /\ total_size' = total_size + num_blocked
    /\ tpc' = "t_mig"
    /\ UNCHANGED <<producer_id, consumer_id, queue, num_blocked, num_migrations,
                   counted, ustate, ppc, punit, poper, pret, via,
                   stayed, quiet>>
    /\ UNCHANGED <<cvAll, schedVars>>

\* abti_pool.h:252: total_size += num_migrations
TotalSizeMigrations ==
    /\ tpc = "t_mig"
    /\ total_size' = total_size + num_migrations
    /\ tpc' = "t_ret"
    /\ UNCHANGED <<producer_id, consumer_id, queue, num_blocked, num_migrations,
                   counted, ustate, ppc, punit, poper, pret, via,
                   stayed, quiet>>
    /\ UNCHANGED <<cvAll, schedVars>>

\* abti_pool.h:253: return total_size
TotalSizeReturn ==
    /\ tpc = "t_ret"
    /\ tpc' = "idle"
    /\ total_size' = 0
    /\ stayed' = {}
    /\ quiet' = TRUE
    /\ UNCHANGED <<producer_id, consumer_id, queue, num_blocked, num_migrations,
                   counted, ustate, ppc, punit, poper, pret, via>>
    /\ UNCHANGED <<cvAll, schedVars>>

\* the accounting of the pool: units are pushed, popped, leave to block or to
\* migrate and come back, while a reader computes the total size
CountNext ==
    \/ \E p \in Identities, u \in Units : PoolPushCall(p, u)
    \/ \E p \in Identities : PushVtable(p)
    \/ \E u \in Units : ABTI_pool_inc_num_blocked(u)
    \/ \E p \in Identities : ABTI_pool_dec_num_blocked(p)
    \/ \E u \in Units : ABTI_pool_inc_num_migrations(u)
    \/ \E p \in Identities : ABTI_pool_dec_num_migrations(p)
    \/ \E p \in Identities : ABTI_pool_pop(p)
    \/ TotalSizeCall
    \/ TotalSizeBlocked
    \/ TotalSizeMigrations
    \/ TotalSizeReturn

CountSpec == Init /\ [][CountNext]_vars

\* the identity gates of the pool: units are pushed and added, popped and removed
GateNext ==
    \/ \E p \in Identities, u \in Units : PoolPushCall(p, u)
    \/ \E p \in Identities, u \in Units : AddThreadCall(p, u)
    \/ \E p \in Identities : AddThreadPush(p)
    \/ \E p \in Identities : PushVtable(p)
    \/ \E p \in Identities : PoolSetConsumer(p)
    \/ \E p \in Identities, u \in Units : ABTI_pool_remove(p, u)
    \/ \E p \in Identities : ABTI_pool_pop(p)
    \/ \E p \in Identities : ABTI_pool_pop_timedwait(p)
    \/ \E u \in Units : ScheduleUnit(u)

GateSpec == Init /\ [][GateNext]_vars

\* ======================= properties =======================

GuardFree == guard = NULL /\ cvLive

InWait(t) == pc[t] \in {"w_assoc", "w_enq", "w_inc", "w_blk", "w_unl"}

\* C4: whenever guard is not held, num_waiters = 0 exactly when waiter_mutex is
\* ABT_MUTEX_NULL, and then head = tail and the head entry has no target.
C4_EmptyIffNoMutex ==
    GuardFree =>
        /\ (num_waiters = 0) <=> (waiter_mutex = ABT_MUTEX_NULL)
        /\ num_waiters = 0 => (head = tail /\ node[head].current = NULL)

\* C4 witness: the queue was used and a signal or broadcast has emptied it again
C4_Witness ==
    /\ GuardFree
    /\ everWaited
    /\ num_waiters = 0
    /\ waiter_mutex = ABT_MUTEX_NULL
    /\ \E t \in Waiters : pc[t] = "w_lock"

\* C5: whenever guard is not held, walking next links from head reaches
\* max(1, num_waiters) entries, every one of them a waiter when num_waiters > 0
\* and a single empty entry when num_waiters = 0; the walk ends at tail and
\* tail.next is NULL.
C5_WalkMatchesCount ==
    GuardFree =>
        LET w == Walk IN
        /\ Len(w) = (IF num_waiters = 0 THEN 1 ELSE num_waiters)
        /\ Len(QueueTargets) = num_waiters
        /\ w[Len(w)] = tail
        /\ node[tail].next = NULL
        /\ \A i \in 1..Len(w) : w[i] \in allocated

\* C5 witness: every waiter is linked, the first one in an entry that an earlier
\* wait allocated and a signal left as head
C5_Witness ==
    /\ GuardFree
    /\ num_waiters = NumWaiters
    /\ Len(Walk) = NumWaiters
    /\ head # tail
    /\ head # 1


\* the waiter's wake-up has reached it: its ULT is READY, or its flag is 1
WakeDelivered(t) ==
    IF UnitType(t) = "THREAD" THEN thrState[t] = "READY" ELSE ext_signal[t] = 1

\* the waiter has enqueued itself and has not yet got past the suspension
Waiting(t) == pc[t] \in {"w_inc", "w_blk", "w_unl", "w_umx", "w_susp"}

\* C1 (state part): a waiter that has enqueued and was not woken is still in the
\* list reached from head; a woken waiter that has not resumed finds its wake-up
\* (ULT READY, flag 1) however early it was delivered; a signal that found
\* waiters when it took guard has woken the first of them and nobody else.
C1_State ==
    /\ \A t \in Waiters :
         /\ (Waiting(t) /\ ~woken[t]) => Enqueued(t)
         /\ (GuardFree /\ Waiting(t) /\ ~woken[t]) =>
                \E i \in 1..Len(QueueTargets) : QueueTargets[i] = t
         /\ (pc[t] = "w_susp" /\ woken[t]) => WakeDelivered(t)
    /\ \A s \in Signalers :
         pc[s] \in {"s_deq", "s_dec", "s_unl"} =>
             /\ snapQ[s] # <<>>
             /\ wokeSeq[s] = <<Head(snapQ[s])>>
             /\ \A i \in 2..Len(snapQ[s]) :
                    Enqueued(snapQ[s][i]) /\ ~woken[snapQ[s][i]]

\* C1 (step part): no waiter leaves the queue unless the call that takes it out
\* has woken its target
C1_Step ==
    \A t \in Waiters :
        (Enqueued(t) /\ ~Enqueued(t)') =>
            /\ guard \in Signalers
            /\ \E i \in 1..Len(wokeSeq'[guard]) : wokeSeq'[guard][i] = t
            /\ WakeDelivered(t)' \/ pc'[t] \in {"w_lock", "idle"}

\* C1: no lost wakeup. A waiter enqueued before a signal took guard is woken by
\* that signal when it is the head of the queue and otherwise stays in the
\* queue; no waiter ever leaves the queue without its target having been woken.
C1_NoLostWakeup == [] C1_State /\ [][C1_Step]_vars

\* C1 witness: a signal found two or more waiters, woke the first one before it
\* had suspended, and the others are still queued
C1_Witness ==
    \E s \in Signalers :
        /\ pc[s] = "s_unl"
        /\ Len(snapQ[s]) >= 2
        /\ pc[Head(snapQ[s])] \in {"w_umx", "w_susp"}
        /\ woken[Head(snapQ[s])]
        /\ Enqueued(snapQ[s][2])

\* C2 (step part): every wake-up goes to the earliest enqueued waiter that has
\* not been woken yet
C2_Step ==
    \A c \in Waiters :
        (woken'[c] /\ ~woken[c]) => (order # <<>> /\ c = Head(order))

\* C2 (state part): with guard free the list order is the enqueue order
C2_State == GuardFree => QueueTargets = order

C3_MutexHandoff ==
    \A t \in Waiters :
        /\ (op[t] = "wait" /\ pc[t] = "idle") =>
               /\ mutexOwner[wmutex[t]] = t
               /\ ret[t] \in {"ABT_SUCCESS", "ABT_ERR_INV_MUTEX", "ABT_ERR_COND",
                              "ABT_ERR_INV_COND"}
               /\ ret[t] = "ABT_SUCCESS" => (nrel[t] = 1 /\ nacq[t] = 1 /\ woken[t])
               /\ ret[t] # "ABT_SUCCESS" => (nrel[t] = 0 /\ nacq[t] = 0)
        /\ InWait(t) => (mutexOwner[wmutex[t]] = t /\ nrel[t] = 0)
        /\ nrel[t] > 0 => (Enqueued(t) \/ woken[t])
        /\ nacq[t] > 0 => (woken[t] /\ nrel[t] = 1)
        /\ nrel[t] <= 1 /\ nacq[t] <= 1

\* C3 witness: a wait has returned ABT_SUCCESS while another caller took the
\* mutex in between
C3_Witness ==
    \E t \in Waiters :
        /\ op[t] = "wait" /\ pc[t] = "idle" /\ ret[t] = "ABT_SUCCESS"
        /\ mutexOwner[wmutex[t]] = t
        /\ \E u \in Waiters \ {t} : pc[u] = "w_lock" /\ wmutex[u] = wmutex[t]


\* the targets of the entries in use, whatever the links say
EnqueuedSet == {t \in Waiters : Enqueued(t)}

\* C6 (step part): the step of wait that compares the mutexes, taken while a
\* waiter with another mutex is queued, returns ABT_ERR_INV_MUTEX, releases
\* guard, and changes neither the CV nor any queued waiter nor the caller's
\* hold on its mutex; the caller is not enqueued and not blocked.
C6_Step ==
    \A t \in Waiters :
        ( /\ pc[t] = "w_assoc"
          /\ pc'[t] # "w_assoc"
          /\ \E w \in Waiters : Enqueued(w) /\ wmutex[w] # wmutex[t] ) =>
            /\ ret'[t] = "ABT_ERR_INV_MUTEX"
            /\ pc'[t] = "idle"
            /\ guard = t /\ guard' = NULL
            /\ UNCHANGED <<waiter_mutex, num_waiters, head, tail, node, allocated>>
            /\ UNCHANGED <<thrState, ext_signal, woken, order, mutexOwner>>
            /\ ~Enqueued(t)'
            /\ thrState'[t] = "RUNNING"

\* C6 (state part): a rejected wait never holds guard after it returned, and
\* the waiters it found are the ones that presented the associated mutex
C6_State ==
    \A t \in Waiters :
        /\ (pc[t] = "idle" /\ ret[t] = "ABT_ERR_INV_MUTEX") =>
               (guard # t /\ ~Enqueued(t) /\ mutexOwner[wmutex[t]] = t)
        /\ (pc[t] = "w_assoc" /\ num_waiters >= 1) =>
               \A w \in EnqueuedSet : wmutex[w] = waiter_mutex

\* C6: a wait with a mutex other than the one the queued waiters are associated
\* with returns ABT_ERR_INV_MUTEX, with num_waiters, the queue, waiter_mutex and
\* every queued waiter unchanged, guard released, the caller neither enqueued
\* nor blocked.
C6_InvalidMutexFrame == [] C6_State /\ [][C6_Step]_vars

\* C6 witness: T2 got ABT_ERR_INV_MUTEX while T1 stays blocked with num_waiters = 1
C6_Witness ==
    \E t, w \in Waiters :
        /\ pc[t] = "idle" /\ ret[t] = "ABT_ERR_INV_MUTEX"
        /\ pc[w] = "w_susp" /\ ~woken[w] /\ Enqueued(w)
        /\ wmutex[w] # wmutex[t]
        /\ num_waiters = 1
        /\ guard = NULL

\* C7 (step part): the check of signal or broadcast that finds num_waiters = 0
\* returns ABT_SUCCESS, releases guard and changes no CV field, wakes nobody,
\* allocates and frees nothing.
C7_Step ==
    \A s \in Signalers :
        ( /\ pc[s] \in {"s_chk", "b_chk"}
          /\ pc'[s] # pc[s]
          /\ num_waiters = 0 ) =>
            /\ ret'[s] = "ABT_SUCCESS"
            /\ pc'[s] = "idle"
            /\ guard = s /\ guard' = NULL
            /\ UNCHANGED <<waiter_mutex, num_waiters, head, tail, node, allocated>>
            /\ UNCHANGED <<thrState, ext_signal, woken, order>>
            /\ wokeSeq'[s] = <<>> /\ nfree'[s] = 0 /\ nalloc'[s] = 0

\* C7 (state part): while no wait has enqueued since create, the kept entry is
\* the only entry in use and every returned call succeeded; after free nothing
\* is in use.
C7_State ==
    /\ (cvLive /\ ~everWaited) =>
           /\ allocated = {head}
           /\ num_waiters = 0
           /\ \A s \in Signalers :
                  /\ (pc[s] = "idle" /\ op[s] = "create") => ret[s] = "ABT_SUCCESS"
                  /\ (pc[s] = "idle" /\ op[s] \in {"signal", "broadcast"}) =>
                         ret[s] \in {"ABT_SUCCESS", "ABT_ERR_INV_COND"}
    /\ ~cvLive =>
           /\ allocated = {}
           /\ \A s \in Signalers : op[s] = "free" => ret[s] = "ABT_SUCCESS"

\* C7: signal and broadcast on a CV without waiters are no-ops that return
\* ABT_SUCCESS; create, signal, broadcast, free in sequence all succeed with
\* the kept entry as the only entry ever allocated.
C7_EmptySignalNoOp == [] C7_State /\ [][C7_Step]_vars

\* C7 witness: a broadcast has returned on a CV nobody has waited on
C7_Witness ==
    \E s \in Signalers :
        /\ pc[s] = "idle" /\ op[s] = "broadcast" /\ ret[s] = "ABT_SUCCESS"
        /\ cvLive /\ ~everWaited /\ guard = NULL
        /\ allocated = {head}


\* C8 (step part): waiter_mutex is set only by a wait that finds the CV empty,
\* to that wait's mutex; once set it changes only to ABT_MUTEX_NULL, and only
\* when a signal dequeues the last waiter or a broadcast empties the queue;
\* the decrement of a signal lowers num_waiters by exactly 1.
C8_Step ==
    /\ (waiter_mutex = ABT_MUTEX_NULL /\ waiter_mutex' # ABT_MUTEX_NULL) =>
           /\ guard \in Waiters
           /\ pc[guard] = "w_assoc"
           /\ num_waiters = 0
           /\ waiter_mutex' = wmutex[guard]
    /\ (waiter_mutex # ABT_MUTEX_NULL /\ waiter_mutex' # waiter_mutex) =>
           /\ waiter_mutex' = ABT_MUTEX_NULL
           /\ guard \in Signalers
           /\ \/ pc[guard] = "s_deq" /\ num_waiters = 1
              \/ pc[guard] = "b_loop" /\ num_waiters' = 0
    /\ \A s \in Signalers :
           (pc[s] = "s_dec" /\ pc'[s] # "s_dec") => num_waiters' = num_waiters - 1

\* C8 (state part): every queued waiter presented the associated mutex; when a
\* signal that found waiters is about to release guard it has woken exactly one
\* waiter, num_waiters is one less than the number it found, and waiter_mutex
\* is ABT_MUTEX_NULL exactly when that was the last waiter.
C8_State ==
    /\ GuardFree => \A t \in EnqueuedSet : wmutex[t] = waiter_mutex
    /\ \A t \in Waiters :
           pc[t] \in {"w_enq", "w_inc", "w_blk", "w_unl"} => wmutex[t] = waiter_mutex
    /\ \A s \in Signalers :
           pc[s] = "s_unl" =>
               /\ Len(wokeSeq[s]) = 1
               /\ num_waiters = Len(snapQ[s]) - 1
               /\ (waiter_mutex = ABT_MUTEX_NULL) <=> (Len(snapQ[s]) = 1)

\* C8: waiter_mutex is set by the first wait on an empty CV, stays that mutex
\* while num_waiters > 0, and is reset to ABT_MUTEX_NULL exactly when a signal
\* dequeues the last waiter or a broadcast empties the queue; each signal on a
\* non-empty CV wakes one waiter and lowers num_waiters by 1, so that after the
\* last signal a wait with a different mutex is accepted.
C8_AssocLifecycle == [] C8_State /\ [][C8_Step]_vars

\* C8 witness: a wait with one mutex has returned after the signals emptied the
\* queue, and a wait with a different mutex is now queued and associated
C8_Witness ==
    \E t, u \in Waiters :
        /\ pc[t] = "idle" /\ op[t] = "wait" /\ ret[t] = "ABT_SUCCESS"
        /\ pc[u] = "w_susp" /\ Enqueued(u) /\ ~woken[u]
        /\ wmutex[u] # wmutex[t]
        /\ waiter_mutex = wmutex[u]
        /\ num_waiters = 1
        /\ guard = NULL

\* C9 (state part): a broadcast that found n >= 1 waiters when it took guard has,
\* when it is about to release guard, woken exactly those n waiters in enqueue
\* order, freed n - 1 entries and kept the head entry, and left the CV empty:
\* head = tail, head.current = NULL, head.next = NULL, num_waiters = 0,
\* waiter_mutex = ABT_MUTEX_NULL.
C9_State ==
    \A s \in Signalers :
        /\ pc[s] = "b_chk" => snapQ[s] = order
        /\ pc[s] = "b_unl" =>
               /\ Len(snapQ[s]) >= 1
               /\ wokeSeq[s] = snapQ[s]
               /\ \A i \in 1..Len(snapQ[s]) : woken[snapQ[s][i]] \/ pc[snapQ[s][i]] = "idle"
               /\ nfree[s] = Len(snapQ[s]) - 1
               /\ allocated = {head}
               /\ head = tail
               /\ node[head].current = NULL
               /\ node[head].next = NULL
               /\ num_waiters = 0
               /\ waiter_mutex = ABT_MUTEX_NULL
               /\ EnqueuedSet = {}

\* C9 (step part): no step of a broadcast moves head or frees the head entry
C9_Step ==
    \A s \in Signalers :
        pc[s] \in {"b_chk", "b_wake", "b_loop", "b_unl"} =>
            (head' = head /\ head \in allocated')

\* C9: broadcast wakes all the waiters queued when it holds guard, in enqueue
\* order, and nobody else; it frees n - 1 entries, keeps the head entry and
\* leaves the CV in the empty state.
C9_BroadcastAll == [] C9_State /\ [][C9_Step]_vars

\* C9 witness: one broadcast has woken every waiter and freed all entries but
\* the head entry
C9_Witness ==
    \E s \in Signalers :
        /\ pc[s] = "b_unl"
        /\ Len(wokeSeq[s]) = NumWaiters
        /\ nfree[s] = NumWaiters - 1
        /\ nfree[s] >= 1

\* C10: if the allocation of a waiter entry fails inside wait, wait returns
\* ABT_ERR_MEM to its caller with the CV unchanged, guard released, the caller
\* not enqueued or blocked and still holding user_mutex. (The code stops at
\* assert(p_entry != NULL) instead, holding guard.)
C10_AllocFailReturnsNoMemory ==
    \A t \in Waiters :
        mallocNull = t =>
            /\ ret[t] = "ABT_ERR_MEM"
            /\ pc[t] = "idle"
            /\ guard # t
            /\ ~aborted
            /\ ~Enqueued(t)
            /\ thrState[t] = "RUNNING"
            /\ mutexOwner[wmutex[t]] = t
            /\ num_waiters = Len(snapQ[t])

\* ======================= schedulers attached to the pool =======================

\* the callers that have passed the assertion of ABTI_pool_release and have
\* not made its decrement yet
InRelease == {q \in Schedulers : spc[q] = "r_sub"}

\* abti_pool.h:229-232: retain, one atomic fetch-and-add
ABTI_pool_retain(p) ==
    /\ spc[p] = "idle" /\ ~asserted
    /\ num_scheds < MaxScheds
    /\ num_scheds' = num_scheds + 1
    /\ balance' = balance + 1
    /\ rret' = [rret EXCEPT ![p] = <<>>]
    /\ UNCHANGED <<asserted, unmatched, spc, poolVars, cvAll>>

\* abti_pool.h:238: ABTI_ASSERT(acquire_load(&num_scheds) > 0)
ReleaseAssert(p) ==
    /\ spc[p] = "idle" /\ ~asserted
    /\ rret' = [rret EXCEPT ![p] = <<>>]
    /\ IF num_scheds > 0
         THEN /\ spc' = [spc EXCEPT ![p] = "r_sub"]
              /\ unmatched' = (unmatched \/ num_scheds <= Cardinality(InRelease))
              /\ UNCHANGED asserted
         ELSE /\ asserted' = TRUE
              /\ UNCHANGED <<spc, unmatched>>
    /\ UNCHANGED <<num_scheds, balance, poolVars, cvAll>>

\* mutant: release returns what fetch_sub returns, the value before the decrement
ReleaseSub_Old(p) ==
    /\ spc[p] = "r_sub" /\ ~asserted
    /\ rret' = [rret EXCEPT ![p] = <<num_scheds>>]
    /\ num_scheds' = num_scheds - 1
    /\ balance' = balance - 1
    /\ spc' = [spc EXCEPT ![p] = "idle"]
    /\ UNCHANGED <<asserted, unmatched, poolVars, cvAll>>

\* abti_pool.h:239: return fetch_sub(&num_scheds, 1) - 1
ReleaseSub(p) ==
    /\ spc[p] = "r_sub" /\ ~asserted
    /\ rret' = [rret EXCEPT ![p] = <<num_scheds - 1>>]
    /\ num_scheds' = num_scheds - 1
    /\ balance' = balance - 1
    /\ spc' = [spc EXCEPT ![p] = "idle"]
    /\ UNCHANGED <<asserted, unmatched, poolVars, cvAll>>

SchedNext ==
    \/ \E p \in Schedulers : ABTI_pool_retain(p)
    \/ \E p \in Schedulers : ReleaseAssert(p)
    \/ \E p \in Schedulers : ReleaseSub(p)

SchedSpec == Init /\ [][SchedNext]_vars

\* ======================= properties of the pool =======================

\* identity p starts a push in this step
PushCalled(p) ==
    /\ ppc[p] = "idle"
    /\ poper'[p] = "push"
    /\ poper[p] # "push" \/ pret'[p] # pret[p] \/ ppc'[p] # ppc[p]

\* identity p has returned from a push
PushReturned(p) == poper[p] = "push" /\ pret[p] # "none"

\* C11 (state part): of two identities that have both returned from a push,
\* exactly one got ABT_SUCCESS and the other ABT_ERR_INV_POOL_ACCESS; a push
\* that succeeded was the installed producer's; a total size computed while
\* the pool did not change is the queue size plus num_blocked plus
\* num_migrations.
C11_State ==
    /\ \A p, q \in Identities :
           (p # q /\ PushReturned(p) /\ PushReturned(q)) =>
               \/ pret[p] = "ABT_SUCCESS" /\ pret[q] = "ABT_ERR_INV_POOL_ACCESS"
               \/ pret[q] = "ABT_SUCCESS" /\ pret[p] = "ABT_ERR_INV_POOL_ACCESS"
    /\ \A p \in Identities :
           (PushReturned(p) /\ pret[p] = "ABT_SUCCESS") => producer_id = p
    /\ (tpc = "t_ret" /\ quiet) =>
           total_size = Cardinality(queue) + num_blocked + num_migrations

\* C11 (step part): the first push installs its caller as producer and goes on
\* to the vtable push; a push by another identity returns
\* ABT_ERR_INV_POOL_ACCESS at once and leaves the queue and the producer as
\* they are; only the installed producer's vtable push adds a unit, its own.
C11_Step ==
    /\ \A p \in Identities :
           /\ (PushCalled(p) /\ producer_id = NULL) =>
                  (producer_id' = p /\ ppc'[p] = "p_push" /\ queue' = queue)
           /\ (PushCalled(p) /\ producer_id \notin {NULL, p}) =>
                  /\ pret'[p] = "ABT_ERR_INV_POOL_ACCESS"
                  /\ ppc'[p] = "idle"
                  /\ queue' = queue
                  /\ producer_id' = producer_id
    /\ producer_id # NULL => producer_id' = producer_id
    /\ queue' \ queue # {} =>
           \E p \in Identities :
               /\ ppc[p] = "p_push"
               /\ p = producer_id
               /\ queue' = queue \cup {punit[p]}

\* C11: producer gate. The first push installs the caller as producer and
\* succeeds; every later push by a different identity returns
\* ABT_ERR_INV_POOL_ACCESS without the vtable push, the queue unchanged; of two
\* identities pushing once each exactly one succeeds, and the total size is then
\* the one queued unit plus num_blocked plus num_migrations.
C11_ProducerGate == [] C11_State /\ [][C11_Step]_vars

\* C11 witness: B's push succeeded, A's push was rejected, one unit is queued
\* and a total size read meanwhile is 1 + num_blocked + num_migrations with a
\* ULT accounted as blocked or migrating
C11_Witness ==
    /\ PushReturned(1) /\ pret[1] = "ABT_ERR_INV_POOL_ACCESS"
    /\ PushReturned(2) /\ pret[2] = "ABT_SUCCESS"
    /\ Cardinality(queue) = 1
    /\ tpc = "t_ret" /\ quiet
    /\ num_blocked + num_migrations >= 1
    /\ total_size = 1 + num_blocked + num_migrations

Pops == {"pop", "pop_timedwait"}

C12_State ==
    \A p \in Identities :
        /\ (poper[p] = "remove" /\ pret[p] \in {"ABT_SUCCESS", "notfound"}) =>
               consumer_id = p
        /\ (poper[p] = "remove" /\ pret[p] = "ABT_ERR_INV_POOL_ACCESS") =>
               consumer_id \notin {NULL, p}
        /\ poper[p] \in Pops => pret[p] \in {"unit", "ABT_UNIT_NULL"}

\* C12 amended (step part): a unit leaves the queue only one at a time, taken
\* by a remove of the designated consumer or by a pop or pop_timedwait of any
\* caller, which leaves the consumer identity as it is; the consumer identity
\* never changes once installed.
C12_Step ==
    /\ queue \ queue' # {} =>
           /\ Cardinality(queue \ queue') = 1
           /\ queue' \subseteq queue
           /\ \E p \in Identities :
                  /\ ppc[p] = "idle"
                  /\ \/ /\ poper'[p] = "remove"
                        /\ pret'[p] = "ABT_SUCCESS"
                        /\ consumer_id \in {NULL, p}
                        /\ consumer_id' = p
                     \/ /\ poper'[p] \in Pops
                        /\ pret'[p] = "unit"
                        /\ consumer_id' = consumer_id
    /\ consumer_id # NULL => consumer_id' = consumer_id
    /\ \A p \in Identities :
           (poper'[p] = "remove" /\ pret'[p] = "ABT_ERR_INV_POOL_ACCESS"
               /\ (poper[p] # poper'[p] \/ pret[p] # pret'[p])) =>
                   queue' = queue

C13_NeverUnderestimates ==
    tpc = "t_ret" => total_size >= Cardinality(stayed)

\* the units whose ULT is accounted in counter c: an inc was made for them and
\* the matching dec has not been made yet
Accounted(c) == {u \in Units : counted[u] = c}

\* C14 (state part): num_blocked and num_migrations are the numbers of incs not
\* yet followed by their dec, so they are never negative, and the total being
\* computed is never negative.
C14_State ==
    /\ num_blocked = Cardinality(Accounted("blocked"))
    /\ num_migrations = Cardinality(Accounted("migrating"))
    /\ num_blocked >= 0
    /\ num_migrations >= 0
    /\ total_size >= 0

\* C14 (step part): adding a counter to the size read never lowers the total,
\* and each inc and dec changes its counter by exactly one
C14_Step ==
    /\ tpc \in {"t_blk", "t_mig"} => total_size' >= total_size
    /\ num_blocked' - num_blocked \in {-1, 0, 1}
    /\ num_migrations' - num_migrations \in {-1, 0, 1}

\* C14: with every dec preceded by its inc, num_blocked and num_migrations are
\* never negative in any interleaving (each is its incs minus its decs), so
\* the total size is at least the size read and does not wrap around.
C14_CountersNonNegative == [] C14_State /\ [][C14_Step]_vars

\* C14 witness: one ULT is blocked and one is migrating while a total size has
\* been computed that is larger than the queue size
C14_Witness ==
    /\ num_blocked = 1
    /\ num_migrations = 1
    /\ tpc = "t_ret"
    /\ total_size = Cardinality(queue) + 2
    /\ \E p \in Identities : ppc[p] = "dec_m"

\* C15 (step part): retain raises num_scheds by one; the decrement of a release
\* lowers it by one and the release returns the value right after its own
\* decrement, so a release returns 0 exactly when it has brought the count to
\* 0; a release gets past its assertion only when it reads a count above 0,
\* and a failed assertion changes nothing.
C15_Step ==
    /\ num_scheds' - num_scheds \in {-1, 0, 1}
    /\ \A p \in Schedulers :
           /\ (spc[p] = "r_sub" /\ spc'[p] = "idle") =>
                  /\ num_scheds' = num_scheds - 1
                  /\ rret'[p] = <<num_scheds'>>
           /\ (spc[p] = "idle" /\ spc'[p] = "r_sub") =>
                  (num_scheds > 0 /\ num_scheds' = num_scheds)
           /\ (rret'[p] # rret[p] /\ rret'[p] = <<0>>) => num_scheds' = 0
    /\ (asserted' /\ ~asserted) => (num_scheds <= 0 /\ num_scheds' = num_scheds)

\* C15 (as stated): num_scheds is retains minus releases, each release returns
\* the value after its own decrement, and num_scheds is never negative, also
\* when releases run concurrently. (Two releases on a count of 1 both pass the
\* assertion at abti_pool.h:238 before either decrements: the count becomes -1.)
C15_RefCount ==
    [](num_scheds = balance /\ num_scheds >= 0) /\ [][C15_Step]_vars

\* C15 amended (state part): num_scheds is retains minus decrements; it is never
\* below the number of releases in progress, hence never negative, as long as
\* every release began with a retain left for it to release; in any case it is
\* never lower than one minus the number of callers that can release at once.
C15_State ==
    /\ num_scheds = balance
    /\ ~unmatched => num_scheds >= Cardinality(InRelease)
    /\ num_scheds >= Cardinality(InRelease) + 1 - Cardinality(Schedulers)
    /\ num_scheds < 0 => unmatched
    /\ asserted => num_scheds <= 0

\* C15 (amended): num_scheds is the retains minus the releases; each release
\* returns the value right after its own decrement, so of the releases that
\* bring the count to 0 exactly one returns 0; a release called when the count
\* is 0 is stopped by the assertion, and num_scheds is never negative as long
\* as every release has a retain of its own to release. The assertion and the
\* decrement are two steps: two releases running concurrently on a count of 1
\* both pass the assertion, the count becomes -1 and one of them returns -1.
C15_RefCountMatched == [] C15_State /\ [][C15_Step]_vars

\* C15 witness: two releases ran concurrently on a count of 1; one returned 0,
\* the other -1, and num_scheds is -1
C15_Witness ==
    /\ num_scheds = -1
    /\ unmatched
    /\ \E p, q \in Schedulers : rret[p] = <<0>> /\ rret[q] = <<-1>>

\* C20 (state part): from the store of add_thread on, through the gate and the
\* vtable push and for as long as the unit is in the queue, the ULT's state is
\* READY.
C20_State ==
    /\ \A u \in queue : via[u] = "add_thread" => ustate[u] = "READY"
    /\ \A p \in Identities :
           (poper[p] = "add_thread" /\ ppc[p] \in {"a_push", "p_push"}) =>
               (ustate[punit[p]] = "READY" /\ punit[p] \notin queue)

\* C20 (step part): every unit that leaves the queue after an add_thread is
\* READY when it is taken; the vtable push of add_thread returns ABT_SUCCESS
\* with the unit in the queue; a push rejected by the producer gate makes
\* add_thread return ABT_ERR_INV_POOL_ACCESS with the queue unchanged and the
\* unit not in it.
C20_Step ==
    /\ \A u \in queue \ queue' : via[u] = "add_thread" => ustate[u] = "READY"
    /\ \A p \in Identities :
           /\ (poper[p] = "add_thread" /\ ppc[p] = "p_push" /\ ppc'[p] # "p_push") =>
                  /\ pret'[p] = "ABT_SUCCESS"
                  /\ punit[p] \in queue'
                  /\ ustate'[punit[p]] = "READY"
           /\ (ppc[p] = "a_push" /\ ppc'[p] = "idle") =>
                  /\ producer_id \notin {NULL, p}
                  /\ pret'[p] = "ABT_ERR_INV_POOL_ACCESS"
                  /\ queue' = queue
                  /\ punit[p] \notin queue'
           /\ (ppc[p] = "a_push" /\ ppc'[p] = "p_push") =>
                  (producer_id' = p /\ queue' = queue)

\* C20: add_thread stores READY into the ULT's state before it pushes the
\* unit, so whoever pops the unit finds the ULT READY; on success the unit is
\* in the pool; when the producer gate rejects the push, add_thread returns
\* ABT_ERR_INV_POOL_ACCESS and the unit is not in the pool.
C20_AddThreadReady == [] C20_State /\ [][C20_Step]_vars

\* C20 witness: a ULT added by add_thread is queued READY, another one has been
\* popped READY, and the other identity's add_thread was rejected by the gate
C20_Witness ==
    \E u \in queue, q \in Identities :
        /\ via[u] = "add_thread"
        /\ ustate[u] = "READY"
        /\ producer_id # q
        /\ poper[q] = "add_thread"
        /\ pret[q] = "ABT_ERR_INV_POOL_ACCESS"
        /\ \E v \in Units \ queue : ustate[v] = "READY" /\ Untouched(v)

\* ======================= the condition variable: monitor discipline,
\* ======================= entry ownership, wake-ups

\* the elements of a sequence
Elems(q) == {q[i] : i \in 1..Len(q)}

\* the waiter is inside wait and has given up its mutex without being woken yet
GaveUpMutex(w) ==
    /\ op[w] = "wait" /\ pc[w] # "idle"
    /\ mutexOwner[wmutex[w]] # w
    /\ ~woken[w]

\* C16 (state part): a waiter that has given up user_mutex inside wait and was
\* not woken is enqueued and counted, and no longer holds guard; a caller that
\* holds that mutex and has taken guard for a signal or a broadcast finds the
\* waiter in the queue, num_waiters >= 1.
C16_State ==
    \A w \in Waiters :
        GaveUpMutex(w) =>
            /\ Enqueued(w)
            /\ num_waiters >= 1
            /\ guard # w
            /\ w \in Elems(order)
            /\ \A s \in Signalers :
                   (pc[s] \in {"s_chk", "b_chk"} /\ mutexOwner[wmutex[w]] = s) =>
                       (w \in Elems(snapQ[s]) /\ snapQ[s] = QueueTargets)

\* C16 (step part): the step of wait that releases user_mutex is taken with the
\* caller enqueued, num_waiters incremented and guard released, unless a
\* wake-up has already taken it out of the queue; a wake-up is delivered only
\* to a target that is in the queue and past its release of guard.
C16_Step ==
    \A w \in Waiters :
        /\ (op[w] = "wait" /\ pc[w] # "idle" /\ mutexOwner[wmutex[w]] = w
               /\ mutexOwner'[wmutex[w]] # w) =>
                  /\ guard # w
                  /\ \/ woken[w]
                     \/ /\ Enqueued(w)
                        /\ w \in Elems(order)
                        /\ num_waiters >= 1
        /\ (woken'[w] /\ ~woken[w]) =>
                  /\ Enqueued(w)
                  /\ num_waiters >= 1
                  /\ pc[w] \in {"w_umx", "w_susp"}
                  /\ guard \in Signalers

\* C16: wait releases user_mutex only after the caller is enqueued, num_waiters
\* incremented and guard released, so a thread that takes user_mutex after a
\* waiter gave it up and then signals or broadcasts finds that waiter in the
\* queue, and no wake-up goes to a target that is not yet enqueued.
C16_MonitorDiscipline == [] C16_State /\ [][C16_Step]_vars

\* C16 witness: the signaling caller holds the mutex a suspended waiter gave up
\* and has taken guard for a signal that finds the waiter queued
C16_Witness ==
    \E s \in Signalers, w \in Waiters :
        /\ pc[s] = "s_chk"
        /\ pc[w] = "w_susp" /\ ~woken[w]
        /\ mutexOwner[wmutex[w]] = s
        /\ w \in Elems(snapQ[s])
        /\ num_waiters >= 1


\* the entries the next step of the caller dereferences
Uses(t) ==
    CASE pc[t] = "w_enq" -> IF num_waiters = 0 THEN {head} ELSE {tail}
      [] pc[t] \in {"s_wake", "b_wake"} -> {head}
      [] pc[t] = "s_deq" -> {lhead[t]}
      [] pc[t] = "b_loop" -> IF lhead[t] # NULL THEN {lhead[t]} ELSE {head}
      [] OTHER -> {}

\* the entries that are allocated and not freed, as many as the list must hold
ExpectedNodes == IF num_waiters > 1 THEN num_waiters ELSE 1

\* C17 (state part): while guard is not held the allocated, not yet freed
\* entries are exactly the entries reached from head, max(1, num_waiters) of
\* them; after destroy none is left; every entry a caller is about to read,
\* write or free is allocated.
C17_State ==
    /\ GuardFree =>
          /\ allocated = Elems(Walk)
          /\ Cardinality(allocated) = ExpectedNodes
          /\ Len(Walk) = ExpectedNodes
    /\ ~cvLive => allocated = {}
    /\ \A t \in Callers : Uses(t) \subseteq allocated

\* C17 (step part): an entry changes only while allocated (or in the step that
\* allocates or frees it); every free takes exactly one allocated entry away;
\* a signal with more than one waiter frees the old head and keeps its
\* successor, unchanged, as the head, a signal with exactly one waiter frees
\* nothing; destroy frees the one remaining entry, the head.
C17_Step ==
    /\ \A n \in Nodes : node'[n] # node[n] => n \in allocated \cup allocated'
    /\ \A t \in Callers :
          nfree'[t] = nfree[t] + 1 =>
              /\ allocated' \subseteq allocated
              /\ Cardinality(allocated') = Cardinality(allocated) - 1
    /\ allocated' \subseteq allocated =>
          Cardinality(allocated \ allocated') <= 1
    /\ \A s \in Signalers :
          (pc[s] = "s_deq" /\ pc'[s] = "s_dec") =>
              IF num_waiters > 1
                THEN /\ head \in allocated
                     /\ allocated' = allocated \ {head}
                     /\ head' = node[head].next
                     /\ head' \in allocated'
                     /\ node'[head'] = node[head']
                ELSE /\ allocated' = allocated
                     /\ head' = head
                     /\ nfree'[s] = nfree[s]
    /\ (cvLive /\ ~cvLive') => (allocated = {head} /\ allocated' = {})

\* C17: the allocated entries are exactly those reached from head,
\* max(1, num_waiters) of them; signal frees the old head only when another
\* waiter remains and then keeps the successor as head; no entry is used after
\* it is freed or freed twice; destroy frees the remaining head entry.
C17_NodeOwnership == [] C17_State /\ [][C17_Step]_vars

\* C17 witness: a signal on two waiters has freed the old head and the
\* successor is the head now
C17_Witness ==
    \E s \in Signalers :
        /\ pc[s] = "s_dec" /\ nfree[s] = 1
        /\ num_waiters = 2
        /\ lhead[s] \notin allocated
        /\ head \in allocated /\ head # lhead[s]
        /\ node[head].current \in Waiters

\* the ULTs that entries of the list name as their target
QueuedULTs ==
    {node[n].current : n \in {m \in Elems(Walk) :
                                 node[m].current # NULL /\ node[m].type = "THREAD"}}

\* C18 (state part): while guard is not held every ULT entry of the queue names
\* a ULT in state BLOCKED.
C18_State ==
    GuardFree => \A c \in QueuedULTs : thrState[c] = "BLOCKED"

\* C18 (step part): a ULT becomes BLOCKED only in its own wait, enqueued and
\* holding guard before and after the step; a signal or broadcast that wakes a
\* ULT finds it BLOCKED and not yet woken in this wait call and leaves it
\* READY; a ULT becomes READY only so.
C18_Step ==
    \A c \in Waiters :
        /\ (thrState'[c] = "BLOCKED" /\ thrState[c] # "BLOCKED") =>
               /\ guard = c /\ guard' = c
               /\ Enqueued(c)
               /\ op[c] = "wait"
        /\ \A s \in Signalers :
               (wokeSeq'[s] = Append(wokeSeq[s], c) /\ UnitType(c) = "THREAD") =>
                   /\ thrState[c] = "BLOCKED"
                   /\ thrState'[c] = "READY"
                   /\ ~woken[c]
                   /\ c \notin Elems(wokeSeq[s])
        /\ (thrState'[c] = "READY" /\ thrState[c] # "READY") =>
               /\ thrState[c] = "BLOCKED"
               /\ ~woken[c] /\ woken'[c]
               /\ \E s \in Signalers :
                      guard = s /\ wokeSeq'[s] = Append(wokeSeq[s], c)

\* C18: a ULT waiter is marked BLOCKED in the guard critical section that
\* enqueues it, so with guard free every ULT entry of the queue is BLOCKED, and
\* signal and broadcast set READY only a BLOCKED ULT, at most once per wait.
C18_BlockedUnderGuard == [] C18_State /\ [][C18_Step]_vars

\* C18 witness: a signal or broadcast has set a suspended ULT waiter READY
C18_Witness ==
    \E s \in Signalers, c \in Waiters :
        /\ guard = s
        /\ c \in Elems(wokeSeq[s])
        /\ UnitType(c) = "THREAD"
        /\ thrState[c] = "READY"
        /\ pc[c] = "w_susp"

\* the wait call of t has returned ABT_SUCCESS with the user mutex held again
Returned(t) ==
    /\ pc[t] = "idle" /\ op[t] = "wait" /\ ret[t] = "ABT_SUCCESS"
    /\ mutexOwner[wmutex[t]] = t

\* the user mutex of the waiter is free when the waiter is about to lock it
\* again
MutexFree(t) == pc[t] = "w_lock" => mutexOwner[wmutex[t]] = NULL

C19_State ==
    \A t \in Waiters :
        /\ (pc[t] # "idle" /\ UnitType(t) = "EXT") =>
               /\ ext_signal[t] \in {0, 1}
               /\ (ext_signal[t] = 1) = woken[t]
        /\ pc[t] = "w_lock" => (woken[t] /\ t \notin Elems(order))
        /\ Returned(t) => (woken[t] /\ t \notin Elems(order))

\* C19 (step part): a wait call starts with the flag at 0; inside the call the
\* flag changes only from 0 to 1, in the step of a signal or broadcast that
\* dequeues the caller, and is never set back; the caller leaves its
\* suspension point and returns only after it was dequeued, and returns
\* holding user_mutex.
C19_Step ==
    \A t \in Waiters :
        /\ (pc[t] = "idle" /\ pc'[t] # "idle") =>
               (ext_signal'[t] = 0 /\ ~woken'[t])
        /\ (pc[t] # "idle" /\ ext_signal'[t] # ext_signal[t]) =>
               /\ ext_signal[t] = 0 /\ ext_signal'[t] = 1
               /\ UnitType(t) = "EXT"
               /\ Enqueued(t)
               /\ \E s \in Signalers :
                      guard = s /\ wokeSeq'[s] = Append(wokeSeq[s], t)
        /\ (pc[t] = "w_susp" /\ pc'[t] # "w_susp") =>
               (woken[t] /\ pc'[t] = "w_lock")
        /\ (pc[t] = "w_lock" /\ pc'[t] # "w_lock") =>
               (woken[t] /\ Returned(t)')

====
